---- MODULE Spec2Model ----
(***************************************************************************)
(* Model of the PostProxy n8n node (nodes/PostProxy/PostProxy.node.ts):    *)
(* the response normalizers, the resource-locator extraction, makeRequest  *)
(* and the item loop of execute.                                           *)
(*                                                                         *)
(* JavaScript values.  A scalar is a string; the reserved spellings        *)
(* "~undef", "~null", "~0", "~5", "~true", "~false" stand for undefined,   *)
(* null, the numbers 0 and 5 and the booleans, every other string is       *)
(* itself.  An object is a function from its own keys to values, so that   *)
(* a key holding undefined and an absent key are different objects.        *)
(***************************************************************************)
EXTENDS Integers, Sequences, FiniteSets, TLC

VARIABLES
    post,          \* simplifyPost: the payload handed to the normalizer
    simplified,    \* simplifyPost(post), once computed
    resimplified,  \* simplifyPost(simplifyPost(post)), once computed
    locator,       \* extractResourceLocatorValue: the raw parameter value
    extracted,     \* extractResourceLocatorValue(locator), once computed
    fnPc,          \* position of the pure-function harness
    outcome,       \* makeRequest: how helpers.httpRequest settled
    made,          \* makeRequest: what makeRequest returned or threw
    items,         \* execute: the input items, each with its resolved parameters
    continueOnFail,\* execute: the host's continue-on-failure mode
    server,        \* the remote API: how many entities it holds, its page size
    i,             \* execute: index of the item being processed (0-based)
    pc,            \* execute: "item", "await" (inside makeRequest), "returned", "thrown"
    returnData,    \* execute: the output items pushed so far
    thrown,        \* execute: the error that left execute, if any
    output,        \* execute: the items handed back to the host on return
    requests,      \* every HTTP request issued, in order
    credentialCalls, \* number of getCredentials calls made
    allItems,      \* getMany: items accumulated so far
    currentPage,   \* getMany: page of the next request
    total,         \* getMany: total as last understood
    perPage,       \* getMany: per_page of the next request
    records,       \* simplifyPost: a per-platform list as the server sends it
    byField,       \* simplifyPost: the output for `records` carried under each field name
    host,          \* option loaders: what the host's parameter accessors and the API do
    listing,       \* option loaders: the body of the listing response
    options        \* option loaders: what the loader returned or threw

fnVars == <<post, simplified, resimplified, locator, extracted, fnPc>>

mrVars == <<outcome, made>>

inputVars == <<items, continueOnFail, server>>

loopVars == <<allItems, currentPage, total, perPage>>

exVars == <<i, pc, returnData, thrown, output, requests, credentialCalls>>

carrierVars == <<records, byField>>

loadVars == <<host, listing, options>>

vars == <<fnVars, mrVars, inputVars, exVars, loopVars, carrierVars, loadVars>>

(***************************************************************************)
(* JavaScript scalars                                                      *)
(***************************************************************************)
Undef == "~undef"
Null == "~null"
Absent == "~absent"   \* not a value: marks a key left out when an object is drawn

Falsy == {Undef, Null, "", "~0", "~false"}

Truthy(v) == v \notin Falsy

\* a || b
Or(a, b) == IF Truthy(a) THEN a ELSE b

NoObj == <<>>   \* the object without keys, {}

\* o.k  (undefined when o has no key k)
Get(o, k) == IF k \in DOMAIN o THEN o[k] ELSE Undef

\* {k: v}, or {} when the key is left out
Field(k, v) == IF v = Absent THEN NoObj ELSE (k :> v)

(***************************************************************************)
(* extractResourceLocatorValue                                             *)
(* A raw parameter value is tagged: a scalar (string, undefined, null,     *)
(* number, boolean) or an object (the resource-locator object).            *)
(***************************************************************************)
Scalar(s) == [kind |-> "scalar", s |-> s, o |-> NoObj]
Object(o) == [kind |-> "object", s |-> "", o |-> o]

NonStrings == {Undef, Null, "~0", "~5", "~true", "~false"}

IsString(s) == s \notin NonStrings

\* typeof value === "string"
TypeofString(value) == value.kind = "scalar" /\ IsString(value.s)

\* typeof value === "object" && value !== null
TypeofObjectNotNull(value) == value.kind = "object"

extractResourceLocatorValueNoDefault(value) ==
    IF TypeofString(value) THEN value.s
    ELSE IF TypeofObjectNotNull(value) THEN Get(value.o, "value")
    ELSE ""

extractResourceLocatorValue(value) ==
    IF TypeofString(value) THEN value.s
    ELSE IF TypeofObjectNotNull(value) THEN Or(Get(value.o, "value"), "")
    ELSE ""

(***************************************************************************)
(* simplifyPost                                                            *)
(***************************************************************************)
\* post.post?.body, post.post?.scheduled_at
Nested(p, k) == IF "post" \in DOMAIN p THEN Get(p["post"], k) ELSE Undef

PlatformListAccountsFirst(p) ==
    IF "accounts" \in DOMAIN p THEN p["accounts"]
    ELSE IF "networks" \in DOMAIN p THEN p["networks"]
    ELSE IF "platforms" \in DOMAIN p THEN p["platforms"]
    ELSE <<>>

\* post.platforms || post.networks || post.accounts || []
PlatformList(p) ==
    IF "platforms" \in DOMAIN p THEN p["platforms"]
    ELSE IF "networks" \in DOMAIN p THEN p["networks"]
    ELSE IF "accounts" \in DOMAIN p THEN p["accounts"]
    ELSE <<>>

MapPlatformNonNull(item) ==
    LET keys == {"platform", "status"}
            \cup {k \in {"attempted_at", "profile_id", "error", "published_url",
                         "params", "insights"} :
                    Get(item, k) # Undef /\ Get(item, k) # Null}
    IN  [k \in keys |-> Get(item, k)]

\* the callback of platforms.map
MapPlatform(item) ==
    LET keys == {"platform", "status"}
            \cup {k \in {"attempted_at", "profile_id", "error", "published_url"} :
                    Get(item, k) # Undef}
            \cup {k \in {"params", "insights"} :
                    Get(item, k) # Undef /\ Get(item, k) # Null}
    IN  [k \in keys |-> Get(item, k)]

\* result.scheduled_at = post.post?.scheduled_at || post.scheduled_at
ScheduledAtValue(p) == Or(Nested(p, "scheduled_at"), Get(p, "scheduled_at"))

\* post.scheduled_at !== undefined || post.post?.scheduled_at !== undefined
HasScheduledAt(p) ==
    Get(p, "scheduled_at") # Undef \/ Nested(p, "scheduled_at") # Undef

simplifyPostDefaults(p) ==
    LET content == Or(Or(Or(Get(p, "content"), Nested(p, "body")), Get(p, "body")), "")
        platforms == [n \in DOMAIN PlatformList(p) |-> MapPlatform(PlatformList(p)[n])]
        keys == {"id", "content", "created_at", "platforms", "network_statuses",
                 "status", "draft", "updated_at", "profile_group_id"}
                \cup (IF HasScheduledAt(p) THEN {"scheduled_at"} ELSE {})
    IN  [k \in keys |->
            CASE k = "content" -> content
              [] k = "scheduled_at" -> ScheduledAtValue(p)
              [] k \in {"platforms", "network_statuses"} -> platforms
              [] k \in {"status", "draft", "updated_at", "profile_group_id"} ->
                    IF Get(p, k) = Undef THEN Null ELSE Get(p, k)
              [] OTHER -> Get(p, k)]

simplifyPostBodyFirst(p) ==
    LET content == Or(Or(Or(Get(p, "content"), Get(p, "body")), Nested(p, "body")), "")
        platforms == [n \in DOMAIN PlatformList(p) |-> MapPlatform(PlatformList(p)[n])]
        keys == {"id", "content", "created_at", "platforms", "network_statuses"}
                \cup {k \in {"status", "draft", "updated_at", "profile_group_id"} :
                        Get(p, k) # Undef}
                \cup (IF HasScheduledAt(p) THEN {"scheduled_at"} ELSE {})
    IN  [k \in keys |->
            CASE k = "content" -> content
              [] k = "scheduled_at" -> ScheduledAtValue(p)
              [] k \in {"platforms", "network_statuses"} -> platforms
              [] OTHER -> Get(p, k)]

simplifyPost(p) ==
    LET content == Or(Or(Or(Get(p, "content"), Nested(p, "body")), Get(p, "body")), "")
        platforms == [n \in DOMAIN PlatformList(p) |-> MapPlatform(PlatformList(p)[n])]
        keys == {"id", "content", "created_at", "platforms", "network_statuses"}
                \cup {k \in {"status", "draft", "updated_at", "profile_group_id"} :
                        Get(p, k) # Undef}
                \cup (IF HasScheduledAt(p) THEN {"scheduled_at"} ELSE {})
    IN  [k \in keys |->
            CASE k = "content" -> content
              [] k = "scheduled_at" -> ScheduledAtValue(p)
              [] k \in {"platforms", "network_statuses"} -> platforms
              [] OTHER -> Get(p, k)]

(***************************************************************************)
(* makeRequest                                                             *)
(* helpers.httpRequest either resolves with a response or rejects with an  *)
(* error.  Numbers and strings that the code only tests for truthiness are *)
(* 0 and "" when absent.  A description is the sequence of the pieces      *)
(* appended to it, in order; it is the empty string iff it has no piece.   *)
(***************************************************************************)
NoError ==
    [statusCode |-> 0, responseStatus |-> 0, requestId |-> "", code |-> "",
     bodyMessage |-> "", bodyError |-> "", message |-> ""]

NoResponse == [kind |-> "undefined", requestId |-> "", payload |-> NoObj]

Resolved(r) == [ok |-> TRUE, response |-> r, error |-> NoError]
Rejected(e) == [ok |-> FALSE, response |-> NoResponse, error |-> e]

\* reading response.headers of undefined or null throws inside the try block
TypeError == [NoError EXCEPT !.message = "TypeError: Cannot read properties"]

RequestIdPiece(id) == [piece |-> "Request ID", text |-> id]
MessagePiece(m) == [piece |-> "message", text |-> m]
HintPiece(h) == [piece |-> "hint", text |-> h]

\* statusCode >= 400 && statusCode < 500
IsClientErrorExclusive(statusCode) == statusCode > 400 /\ statusCode < 500

IsClientError(statusCode) == statusCode >= 400 /\ statusCode < 500

\* the hint appended after the API message of a 4xx
ClientHint(statusCode) ==
    IF statusCode = 401 THEN <<HintPiece("Please check your API credentials.")>>
    ELSE IF statusCode = 404 THEN <<HintPiece("The requested resource was not found.")>>
    ELSE IF statusCode = 429
         THEN <<HintPiece("Rate limit exceeded. Please try again later.")>>
    ELSE <<>>

\* the catch block of makeRequest
CatchError(error) ==
    LET statusCode == IF error.statusCode # 0 THEN error.statusCode
                      ELSE error.responseStatus
        requestId == error.requestId
        prefix == IF requestId # "" THEN <<RequestIdPiece(requestId)>> ELSE <<>>
        apiMessage == Or(Or(error.bodyMessage, error.bodyError), error.message)
        errorMessage ==
            IF statusCode # 0
            THEN IF IsClientError(statusCode)
                 THEN [text |-> "PostProxy API error", status |-> statusCode]
                 ELSE IF statusCode >= 500
                 THEN [text |-> "PostProxy API server error", status |-> statusCode]
                 ELSE [text |-> "PostProxy API request failed", status |-> 0]
            ELSE IF error.code \in {"ETIMEDOUT", "ECONNABORTED"}
            THEN [text |-> "PostProxy API request timed out", status |-> 0]
            ELSE IF error.code \in {"ENOTFOUND", "ECONNREFUSED"}
            THEN [text |-> "PostProxy API connection failed", status |-> 0]
            ELSE [text |-> "PostProxy API request failed", status |-> 0]
        description ==
            IF statusCode # 0
            THEN IF IsClientError(statusCode)
                 THEN prefix \o <<MessagePiece(Or(apiMessage, "Client error"))>>
                        \o ClientHint(statusCode)
                 ELSE IF statusCode >= 500
                 THEN prefix \o <<MessagePiece(Or(apiMessage, "Internal server error"))>>
                        \o <<HintPiece("Please try again later or contact PostProxy support.")>>
                 ELSE prefix
            ELSE IF error.code \in {"ETIMEDOUT", "ECONNABORTED"}
            THEN <<MessagePiece("The request took too long to complete. Please try again.")>>
            ELSE IF error.code \in {"ENOTFOUND", "ECONNREFUSED"}
            THEN <<MessagePiece("Could not connect to PostProxy API. Please check your network connection.")>>
            ELSE prefix
    IN  [type |-> "NodeApiError",
         message |-> errorMessage,
         description |-> IF description # <<>> THEN description
                         ELSE <<MessagePiece(error.message)>>,
         httpCode |-> statusCode,
         logged |-> requestId]

NoThrow ==
    [type |-> "none", message |-> [text |-> "", status |-> 0], description |-> <<>>,
     httpCode |-> 0, logged |-> ""]

\* makeRequest reading the headers with response?.headers
makeRequestOptionalHeaders(o) ==
    IF o.ok
    THEN [threw |-> FALSE, value |-> o.response,
          error |-> [NoThrow EXCEPT !.logged = o.response.requestId]]
    ELSE [threw |-> TRUE, value |-> NoResponse, error |-> CatchError(o.error)]

\* makeRequest, from the settled httpRequest to its return or throw
makeRequest(o) ==
    IF o.ok
    THEN IF o.response.kind \in {"undefined", "null"}
         THEN [threw |-> TRUE, value |-> NoResponse, error |-> CatchError(TypeError)]
         ELSE [threw |-> FALSE, value |-> o.response,
               error |-> [NoThrow EXCEPT !.logged = o.response.requestId]]
    ELSE [threw |-> TRUE, value |-> NoResponse, error |-> CatchError(o.error)]

NotMade == [threw |-> FALSE, value |-> NoResponse, error |-> NoThrow]

\* per-platform records as the API sends them
PlatformEntries ==
    << [platform |-> "twitter", status |-> "published", attempted_at |-> "a1",
        params |-> Null, insights |-> "{i}"],
       [platform |-> "facebook", status |-> "failed", error |-> "e1",
        profile_id |-> "pr1", params |-> "{p}"],
       [status |-> "pending", published_url |-> Null] >>

(***************************************************************************)
(* simplifyProfile                                                         *)
(***************************************************************************)
simplifyProfileNullExpiry(profile) ==
    LET keys == {"id", "name", "platform", "profile_group_id", "status", "created_at"}
                \cup {k \in {"expires_at", "post_count"} : Get(profile, k) # Undef}
    IN  [k \in keys |->
            IF k = "name" THEN Or(Get(profile, "name"), Get(profile, "username"))
            ELSE Get(profile, k)]

simplifyProfile(profile) ==
    LET keys == {"id", "name", "platform", "profile_group_id", "status", "created_at"}
                \cup {k \in {"expires_at"} :
                        Get(profile, k) # Undef /\ Get(profile, k) # Null}
                \cup {k \in {"post_count"} : Get(profile, k) # Undef}
    IN  [k \in keys |->
            IF k = "name" THEN Or(Get(profile, "name"), Get(profile, "username"))
            ELSE Get(profile, k)]

(***************************************************************************)
(* Text.  A string whose characters the code inspects (trim, startsWith)   *)
(* is the sequence of its characters.                                      *)
(***************************************************************************)
IsSpace(c) == c \in {" "}

RECURSIVE TrimStart(_)
TrimStart(str) ==
    IF str # <<>> /\ IsSpace(Head(str)) THEN TrimStart(Tail(str)) ELSE str

RECURSIVE TrimEnd(_)
TrimEnd(str) ==
    IF str # <<>> /\ IsSpace(str[Len(str)])
    THEN TrimEnd(SubSeq(str, 1, Len(str) - 1)) ELSE str

\* String.prototype.trim
Trim(str) == TrimEnd(TrimStart(str))

\* String.prototype.startsWith
StartsWith(str, prefix) ==
    Len(str) >= Len(prefix) /\ SubSeq(str, 1, Len(prefix)) = prefix

HttpPrefix == <<"h", "t", "t", "p", ":", "/", "/">>
HttpsPrefix == <<"h", "t", "t", "p", "s", ":", "/", "/">>

(***************************************************************************)
(* execute: the create-post branch                                         *)
(***************************************************************************)
OperationError(text, description) ==
    [type |-> "NodeOperationError", message |-> [text |-> text, status |-> 0],
     description |-> <<MessagePiece(description)>>, httpCode |-> 0, logged |-> ""]

\* extractUrl: the URL a media field value yields, trimmed; <<>> stands for null
extractUrl(value) ==
    IF value.kind \in {"string", "urlObject", "array"} THEN Trim(value.url) ELSE <<>>

IsHttpUrl(url) == StartsWith(url, HttpPrefix) \/ StartsWith(url, HttpsPrefix)

IsValidMedia(value) == extractUrl(value) # <<>> /\ IsHttpUrl(extractUrl(value))

IsInvalidMedia(value) == extractUrl(value) # <<>> /\ ~IsHttpUrl(extractUrl(value))

urlsArrayUntrimmed(mediaUrls) ==
    LET valid == SelectSeq(mediaUrls, IsValidMedia)
    IN  [n \in DOMAIN valid |-> valid[n].url]

\* urlsArray and invalidUrls after mediaUrls.forEach(processValue)
urlsArray(mediaUrls) ==
    LET valid == SelectSeq(mediaUrls, IsValidMedia)
    IN  [n \in DOMAIN valid |-> extractUrl(valid[n])]

invalidUrls(mediaUrls) ==
    LET invalid == SelectSeq(mediaUrls, IsInvalidMedia)
    IN  [n \in DOMAIN invalid |-> extractUrl(invalid[n])]

\* JSON.parse on the platform-parameter texts the model supplies; isObject is
\* typeof parsed === "object" && parsed !== null (true of arrays), keys is
\* Object.keys(parsed).length
ParseJson(text) ==
    CASE text = <<"{", "}">> -> [threw |-> FALSE, isObject |-> TRUE, keys |-> 0, error |-> ""]
      [] text = <<"{", " ", "}">> -> [threw |-> FALSE, isObject |-> TRUE, keys |-> 0, error |-> ""]
      [] text = <<"{", "\"", "a", "\"", ":", "1", "}">>
            -> [threw |-> FALSE, isObject |-> TRUE, keys |-> 1, error |-> ""]
      [] text = <<"[", "]">> -> [threw |-> FALSE, isObject |-> TRUE, keys |-> 0, error |-> ""]
      [] text = <<"[", "1", "]">> -> [threw |-> FALSE, isObject |-> TRUE, keys |-> 1, error |-> ""]
      [] text = <<"n", "u", "l", "l">> -> [threw |-> FALSE, isObject |-> FALSE, keys |-> 0, error |-> ""]
      [] OTHER -> [threw |-> TRUE, isObject |-> FALSE, keys |-> 0,
                   error |-> "Unexpected token in JSON"]

\* platformParamsRaw && platformParamsRaw.trim() !== "" && platformParamsRaw !== "{}"
ParamsSupplied(platformParamsRaw) ==
    /\ platformParamsRaw # <<>>
    /\ Trim(platformParamsRaw) # <<>>
    /\ platformParamsRaw # <<"{", "}">>

ContentError ==
    OperationError("Content cannot be empty",
                   "Please provide post content in the 'Content' field.")
ProfileGroupError ==
    OperationError("Profile Group must be selected",
                   "Please select a profile group to publish to.")
ProfilesError ==
    OperationError("At least one profile must be selected",
                   "Please select at least one social media profile to publish to.")
PublishAtError ==
    OperationError("Publish At date is required",
                   "When Publish Type is 'Schedule', you must provide a Publish At date.")
MediaError ==
    OperationError("Invalid media URLs provided", "All media URLs were invalid.")
\* description: "Platform Parameters must be valid JSON. Error: " + error.message
ParamsError(message) ==
    [type |-> "NodeOperationError",
     message |-> [text |-> "Invalid Platform Parameters JSON", status |-> 0],
     description |-> <<MessagePiece("Platform Parameters must be valid JSON. Error: "),
                       MessagePiece(message)>>,
     httpCode |-> 0, logged |-> ""]

\* the four checks under "// Validation", in the order the code makes them
ValidationErrorGroupFirst(item) ==
    IF ~Truthy(extractResourceLocatorValue(item.profileGroup)) THEN ProfileGroupError
    ELSE IF item.content = <<>> \/ Trim(item.content) = <<>> THEN ContentError
    ELSE IF item.profiles = <<>> THEN ProfilesError
    ELSE IF item.publishType = "schedule"
            /\ (item.publish_at = <<>> \/ Trim(item.publish_at) = <<>>)
    THEN PublishAtError
    ELSE NoThrow

ValidationError(item) ==
    IF item.content = <<>> \/ Trim(item.content) = <<>> THEN ContentError
    ELSE IF ~Truthy(extractResourceLocatorValue(item.profileGroup)) THEN ProfileGroupError
    ELSE IF item.profiles = <<>> THEN ProfilesError
    ELSE IF item.publishType = "schedule"
            /\ (item.publish_at = <<>> \/ Trim(item.publish_at) = <<>>)
    THEN PublishAtError
    ELSE NoThrow

\* the create branch without the all-URLs-invalid check
CreateErrorNoMediaCheck(item) ==
    IF ValidationError(item) # NoThrow THEN ValidationError(item)
    ELSE IF ParamsSupplied(item.platformParams) /\ ParseJson(item.platformParams).threw
    THEN ParamsError(ParseJson(item.platformParams).error)
    ELSE NoThrow

\* the create branch raising on any invalid URL
CreateErrorAnyInvalidMedia(item) ==
    IF ValidationError(item) # NoThrow THEN ValidationError(item)
    ELSE IF invalidUrls(item.media) # <<>> THEN MediaError
    ELSE IF ParamsSupplied(item.platformParams) /\ ParseJson(item.platformParams).threw
    THEN ParamsError(ParseJson(item.platformParams).error)
    ELSE NoThrow

\* the error the create branch throws before its request, NoThrow when none
CreateError(item) ==
    IF ValidationError(item) # NoThrow THEN ValidationError(item)
    ELSE IF invalidUrls(item.media) # <<>> /\ urlsArray(item.media) = <<>> THEN MediaError
    ELSE IF ParamsSupplied(item.platformParams) /\ ParseJson(item.platformParams).threw
    THEN ParamsError(ParseJson(item.platformParams).error)
    ELSE NoThrow

\* body.post.scheduled_at
ScheduledAtAnyType(item) ==
    IF item.publish_at # <<>> /\ Trim(item.publish_at) # <<>>
    THEN "scheduled_at" :> Trim(item.publish_at) ELSE NoObj

ScheduledAtUntrimmed(item) ==
    IF \/ item.publishType = "schedule" /\ item.publish_at # <<>>
       \/ item.publishType = "draft" /\ item.publish_at # <<>>
            /\ Trim(item.publish_at) # <<>>
    THEN "scheduled_at" :> item.publish_at ELSE NoObj

ScheduledAt(item) ==
    IF \/ item.publishType = "schedule" /\ item.publish_at # <<>>
       \/ item.publishType = "draft" /\ item.publish_at # <<>>
            /\ Trim(item.publish_at) # <<>>
    THEN "scheduled_at" :> Trim(item.publish_at) ELSE NoObj

\* body.media
MediaField(item) ==
    IF urlsArray(item.media) # <<>> THEN "media" :> urlsArray(item.media) ELSE NoObj

\* body.params: the parsed value, which the model writes as the text it was
\* parsed from
ParamsFieldEmptyObject(item) ==
    IF ParamsSupplied(item.platformParams) /\ ~ParseJson(item.platformParams).threw
          /\ ParseJson(item.platformParams).isObject
    THEN "params" :> item.platformParams ELSE NoObj

ParamsField(item) ==
    IF ParamsSupplied(item.platformParams) /\ ~ParseJson(item.platformParams).threw
          /\ ParseJson(item.platformParams).isObject
          /\ ParseJson(item.platformParams).keys > 0
    THEN "params" :> item.platformParams ELSE NoObj

\* the body of POST /posts
CreateBody(item) ==
    LET draft == IF item.publishType = "draft" THEN "draft" :> "~true" ELSE NoObj
    IN  ("post" :> (("body" :> Trim(item.content)) @@ ScheduledAt(item) @@ draft))
            @@ ("profiles" :> item.profiles) @@ MediaField(item) @@ ParamsField(item)

(***************************************************************************)
(* execute: the other branches                                             *)
(***************************************************************************)
PostIdError == OperationError("Post ID is required", "Please provide a valid Post ID.")
ProfileIdError ==
    OperationError("Profile ID is required", "Please provide a valid Profile ID.")
UpdateFieldsError ==
    OperationError("At least one field must be provided to update",
                   "Please provide at least one field (Content or Scheduled At) to update the post.")
UnsupportedError ==
    OperationError("The operation for resource is not supported",
                   "This combination of resource and operation is not available.")

UpdatePostKeepsEmpty(updateFields) ==
    (IF Get(updateFields, "content") # Undef
     THEN "body" :> updateFields["content"] ELSE NoObj)
    @@ (IF Get(updateFields, "scheduled_at") # Undef
        THEN "scheduled_at" :> updateFields["scheduled_at"] ELSE NoObj)

\* body.post of PATCH /posts/{id}
UpdatePost(updateFields) ==
    (IF Get(updateFields, "content") \notin {Undef, ""}
     THEN "body" :> updateFields["content"] ELSE NoObj)
    @@ (IF Get(updateFields, "scheduled_at") \notin {Undef, ""}
        THEN "scheduled_at" :> updateFields["scheduled_at"] ELSE NoObj)

\* the branches of execute that assign responseData
Supported ==
    { <<"post", op>> : op \in {"create", "delete", "get", "getMany", "update", "publish"} }
    \cup { <<"profile", "get">>, <<"profile", "getMany">>, <<"profileGroup", "getMany">> }

Request(item, method, endpoint, id, page, per_page, body) ==
    [item |-> item, method |-> method, endpoint |-> endpoint, id |-> id,
     page |-> page, per_page |-> per_page, body |-> body]

ListEndpoint(resource) ==
    CASE resource = "post" -> "/posts"
      [] resource = "profile" -> "/profiles"
      [] resource = "profileGroup" -> "/profile_groups/"

\* response.data || response.items || (Array.isArray(response) ? response : [])
ResponseItems(response) ==
    IF response.kind = "object"
    THEN IF "data" \in DOMAIN response.payload THEN response.payload["data"]
         ELSE IF "items" \in DOMAIN response.payload THEN response.payload["items"]
         ELSE <<>>
    ELSE IF response.kind = "array" THEN response.payload
    ELSE <<>>

\* response.total, response.per_page: 0 when the response has no such number
ResponseNumber(response, k) ==
    IF response.kind = "object" /\ k \in DOMAIN response.payload
    THEN response.payload[k] ELSE 0

\* total = response.total || items.length
NewTotalFromPage(response, got) == Len(got)

NewTotalOneMore(response, got) ==
    IF ResponseNumber(response, "total") # 0
    THEN ResponseNumber(response, "total") ELSE Len(got) + 1

NewTotal(response, got) ==
    IF ResponseNumber(response, "total") # 0
    THEN ResponseNumber(response, "total") ELSE Len(got)

\* perPage = response.per_page || perPage
NewPerPage(response, old) ==
    IF ResponseNumber(response, "per_page") # 0
    THEN ResponseNumber(response, "per_page") ELSE old

SliceAll(list, limit) == list

\* Array.prototype.slice(0, limit)
Slice(list, limit) == SubSeq(list, 1, IF limit < Len(list) THEN limit ELSE Len(list))

SimplifyAll(resource, simplify, list) ==
    IF resource = "post" /\ simplify THEN [n \in DOMAIN list |-> simplifyPost(list[n])]
    ELSE IF resource = "profile" /\ simplify
    THEN [n \in DOMAIN list |-> simplifyProfile(list[n])]
    ELSE list

\* {total, page, per_page, data}
Envelope(t, page, per_page, data) ==
    [kind |-> "object", requestId |-> "",
     payload |-> ("total" :> t) @@ ("page" :> page) @@ ("per_page" :> per_page)
                    @@ ("data" :> data)]

AsObject(payload) == [kind |-> "object", requestId |-> "", payload |-> payload]

\* json of the item pushed by the catch block under continue-on-failure
\* error.description || errorMessage
ErrorJson(error) ==
    AsObject(("error" :> error.message)
             @@ ("description" :> IF error.description = <<MessagePiece("")>>
                                  THEN <<MessagePiece(error.message.text)>>
                                  ELSE error.description))

(***************************************************************************)
(* The remote API and the transport                                        *)
(***************************************************************************)
MaxItems == 2     \* input items per execute
MaxTotal == 5     \* entities the server holds
MaxPerPage == 3   \* the server's page size

ListEntity(resource, n) ==
    CASE resource = "post"
            -> ("id" :> ToString(n)) @@ ("content" :> "text") @@ ("status" :> "processed")
      [] resource = "profile"
            -> ("id" :> ToString(n)) @@ ("username" :> "bob") @@ ("platform" :> "twitter")
                @@ ("profile_group_id" :> "g1") @@ ("status" :> "active")
                @@ ("created_at" :> "c1")
      [] resource = "profileGroup" -> ("id" :> ToString(n)) @@ ("name" :> "group")

\* the page the server serves: it holds server.total entities, numbered from 1,
\* and serves them server.perPage to a page, reporting both numbers
ServerPage(resource, page) ==
    LET first == page * server.perPage + 1
        last == IF (page + 1) * server.perPage < server.total
                THEN (page + 1) * server.perPage ELSE server.total
        list == [n \in 1..(IF last >= first THEN last - first + 1 ELSE 0) |->
                    ListEntity(resource, first + n - 1)]
    IN  AsObject(("data" :> list) @@ ("total" :> server.total) @@ ("page" :> page)
                 @@ ("per_page" :> server.perPage))

EntityPayload(resource) ==
    IF resource = "profile"
    THEN ("id" :> "pr1") @@ ("username" :> "bob") @@ ("platform" :> "twitter")
         @@ ("profile_group_id" :> "g1") @@ ("status" :> "active") @@ ("created_at" :> "c1")
    ELSE ("id" :> "p1") @@ ("post" :> (("body" :> "Hello") @@ ("scheduled_at" :> Null)))
         @@ ("status" :> "draft") @@ ("accounts" :> <<PlatformEntries[1]>>)

\* what a single-entity call can resolve with: the entity, an empty body, nothing
EntityResponses(resource) ==
    { [kind |-> "object", requestId |-> "req-1", payload |-> EntityPayload(resource)],
      [kind |-> "string", requestId |-> "", payload |-> NoObj],
      NoResponse }

Failures ==
    { Rejected([NoError EXCEPT !.statusCode = 404, !.requestId = "req-1",
                               !.bodyMessage = "body message"]),
      Rejected([NoError EXCEPT !.code = "ETIMEDOUT", !.message = "error message"]) }

(***************************************************************************)
(* execute: the item loop                                                  *)
(***************************************************************************)
Item == items[i + 1]

IdleLoop ==
    /\ allItems = <<>>
    /\ currentPage = 0
    /\ total = 0
    /\ perPage = 10

ResetLoop ==
    /\ allItems' = <<>>
    /\ currentPage' = 0
    /\ total' = 0
    /\ perPage' = 10

\* the catch block with the continue-on-failure test ignored: every error is
\* turned into an output item
FailAlwaysContinue(error) ==
    /\ returnData' = Append(returnData, [json |-> ErrorJson(error), pairedItem |-> i])
    /\ i' = i + 1
    /\ pc' = "item"
    /\ UNCHANGED <<thrown, output, requests, credentialCalls>>
    /\ ResetLoop

\* the catch block without the continue-on-failure branch: every error leaves
FailAlwaysThrow(error) ==
    /\ thrown' = error
    /\ pc' = "thrown"
    /\ UNCHANGED <<returnData, i, output, requests, credentialCalls>>
    /\ ResetLoop

\* the catch block of the item loop
Fail(error) ==
    /\ IF continueOnFail
       THEN /\ returnData' = Append(returnData,
                                    [json |-> ErrorJson(error), pairedItem |-> i])
            /\ i' = i + 1
            /\ pc' = "item"
            /\ UNCHANGED thrown
       ELSE /\ thrown' = error
            /\ pc' = "thrown"
            /\ UNCHANGED <<returnData, i>>
    /\ UNCHANGED <<output, requests, credentialCalls>>
    /\ ResetLoop

\* the end of the try block: the unsupported check and the push
Push(responseData) ==
    IF responseData.kind = "undefined"
    THEN Fail(UnsupportedError)
    ELSE /\ returnData' = Append(returnData, [json |-> responseData, pairedItem |-> i])
         /\ i' = i + 1
         /\ pc' = "item"
         /\ UNCHANGED <<thrown, output, requests, credentialCalls>>
         /\ ResetLoop

\* makeRequest up to its await: the credential is read, the request leaves
Issue(request) ==
    /\ requests' = Append(requests, request)
    /\ credentialCalls' = credentialCalls + 1
    /\ pc' = "await"
    /\ UNCHANGED <<i, returnData, thrown, output>>

AtItem(resource, operation) ==
    /\ pc = "item"
    /\ i < Len(items)
    /\ Item.resource = resource
    /\ Item.operation = operation

CreatePost ==
    /\ AtItem("post", "create")
    /\ IF CreateError(Item) # NoThrow
       THEN Fail(CreateError(Item))
       ELSE /\ Issue(Request(i, "POST", "/posts", "", -1, -1, CreateBody(Item)))
            /\ UNCHANGED loopVars
    /\ UNCHANGED <<fnVars, mrVars, inputVars, carrierVars, loadVars>>

\* delete, get and publish: extract the post ID, refuse an empty one, call
PostById(operation, method, endpoint) ==
    /\ AtItem("post", operation)
    /\ LET postId == extractResourceLocatorValue(Item.postId)
       IN  IF ~Truthy(postId)
           THEN Fail(PostIdError)
           ELSE /\ Issue(Request(i, method, endpoint, postId, -1, -1, NoObj))
                /\ UNCHANGED loopVars
    /\ UNCHANGED <<fnVars, mrVars, inputVars, carrierVars, loadVars>>

DeletePost == PostById("delete", "DELETE", "/posts/{id}")

GetPost == PostById("get", "GET", "/posts/{id}")

PublishPost == PostById("publish", "POST", "/posts/{id}/publish")

UpdatePostOp ==
    /\ AtItem("post", "update")
    /\ LET postId == extractResourceLocatorValue(Item.postId)
       IN  IF ~Truthy(postId)
           THEN Fail(PostIdError)
           ELSE IF UpdatePost(Item.updateFields) = NoObj
           THEN Fail(UpdateFieldsError)
           ELSE /\ Issue(Request(i, "PATCH", "/posts/{id}", postId, -1, -1,
                                 "post" :> UpdatePost(Item.updateFields)))
                /\ UNCHANGED loopVars
    /\ UNCHANGED <<fnVars, mrVars, inputVars, carrierVars, loadVars>>

GetProfile ==
    /\ AtItem("profile", "get")
    /\ LET profileId == extractResourceLocatorValue(Item.profileId)
       IN  IF ~Truthy(profileId)
           THEN Fail(ProfileIdError)
           ELSE /\ Issue(Request(i, "GET", "/profiles/{id}", profileId, -1, -1, NoObj))
                /\ UNCHANGED loopVars
    /\ UNCHANGED <<fnVars, mrVars, inputVars, carrierVars, loadVars>>

\* getMany up to its first request
GetMany(resource) ==
    /\ AtItem(resource, "getMany")
    /\ allItems' = <<>>
    /\ total' = 0
    /\ currentPage' = IF Item.returnAll THEN 0 ELSE Item.page
    /\ perPage' = IF Item.returnAll THEN 10 ELSE Item.per_page
    /\ Issue(Request(i, "GET", ListEndpoint(resource), "", currentPage', perPage', NoObj))
    /\ UNCHANGED <<fnVars, mrVars, inputVars, carrierVars, loadVars>>

\* no branch assigns responseData
Unsupported ==
    /\ pc = "item"
    /\ i < Len(items)
    /\ <<Item.resource, Item.operation>> \notin Supported
    /\ Push(NoResponse)
    /\ UNCHANGED <<fnVars, mrVars, inputVars, carrierVars, loadVars>>

\* simplify && responseData
SimplifiedEntity(response) ==
    IF Item.simplify /\ response.kind = "object"
    THEN AsObject(IF Item.resource = "profile" THEN simplifyProfile(response.payload)
                  ELSE simplifyPost(response.payload))
    ELSE response

\* a single-entity call settles: makeRequest returns or throws, the branch ends
SettleEntity ==
    /\ pc = "await"
    /\ Item.operation # "getMany"
    /\ \E o \in {Resolved(r) : r \in EntityResponses(Item.resource)} \cup Failures :
          LET m == makeRequest(o)
          IN  IF m.threw THEN Fail(m.error)
              ELSE IF Item.operation \in {"get", "publish"}
              THEN Push(SimplifiedEntity(m.value))
              ELSE Push(m.value)
    /\ UNCHANGED <<fnVars, mrVars, inputVars, carrierVars, loadVars>>

\* one turn of the do-while loop of getMany on what the page request settled
\* with, and what follows the loop when it ends
Turn(o) ==
    LET m == makeRequest(o)
        got == ResponseItems(m.value)
        acc == allItems \o got
        newTotal == NewTotal(m.value, got)
        newPerPage == NewPerPage(m.value, perPage)
        limited == Slice(acc, Item.limit)
    IN  IF m.threw THEN Fail(m.error)
        ELSE IF ~Item.returnAll
        THEN Push(Envelope(Len(limited), currentPage, perPage,
                           SimplifyAll(Item.resource, Item.simplify, limited)))
        ELSE IF Len(acc) < newTotal
        THEN /\ allItems' = acc
             /\ total' = newTotal
             /\ perPage' = newPerPage
             /\ currentPage' = currentPage + 1
             /\ Issue(Request(i, "GET", ListEndpoint(Item.resource), "",
                              currentPage + 1, newPerPage, NoObj))
        ELSE Push(Envelope(newTotal, 0, newPerPage,
                           SimplifyAll(Item.resource, Item.simplify, acc)))

\* a page of getMany settles, served by a server that pages what it holds
SettlePage ==
    /\ pc = "await"
    /\ Item.operation = "getMany"
    /\ \E o \in {Resolved(ServerPage(Item.resource, currentPage))} \cup Failures :
          Turn(o)
    /\ UNCHANGED <<fnVars, mrVars, inputVars, carrierVars, loadVars>>

\* the loop is over: return [returnData]
Return ==
    /\ pc = "item"
    /\ i = Len(items)
    /\ pc' = "returned"
    /\ output' = returnData
    /\ UNCHANGED <<i, returnData, thrown, requests, credentialCalls>>
    /\ UNCHANGED <<fnVars, mrVars, inputVars, carrierVars, loadVars, loopVars>>

(***************************************************************************)
(* Option loaders (methods.listSearch, methods.loadOptions).  The host is  *)
(* what the loader finds around it: each parameter accessor either throws  *)
(* or returns a raw value, the search box holds a filter text ("" when     *)
(* none was typed), and the listing request resolves or is rejected.       *)
(***************************************************************************)
Threw == [threw |-> TRUE, value |-> Scalar(Undef)]
Returned(value) == [threw |-> FALSE, value |-> value]

\* selected is the value the parameter has in the editor; current, indexed and
\* node are getCurrentNodeParameter, getNodeParameter(.., 0) and
\* getNode().parameters reading it
NoHost == [selected |-> Scalar(Undef), current |-> Threw, indexed |-> Threw,
           node |-> Threw, filter |-> <<>>, rejected |-> FALSE]

NotLoaded == [threw |-> FALSE, message |-> "", query |-> "", results |-> <<>>]

LoadFailed(message) ==
    [threw |-> TRUE, message |-> message, query |-> "", results |-> <<>>]

\* searchPosts: operation after the nested try blocks
ReadOperation(h) ==
    IF ~h.current.threw THEN h.current.value
    ELSE IF ~h.node.threw THEN h.node.value
    ELSE Scalar(Undef)

\* post.status === "draft" || post.draft === true
IsDraftAnyFlag(p) == Get(p, "status") = "draft" \/ "draft" \in DOMAIN p

IsDraft(p) == Get(p, "status") = "draft" \/ Get(p, "draft") = "~true"

\* the characters of a scalar: String(value)
Chars(v) ==
    CASE v = "" -> <<>>
      [] v = "draft" -> <<"d", "r", "a", "f", "t">>
      [] v = "processed" -> <<"p", "r", "o", "c", "e", "s", "s", "e", "d">>
      [] OTHER -> <<v>>

\* String.prototype.toLowerCase on the letters the model uses
LowerChar(c) ==
    CASE c = "H" -> "h"
      [] c = "I" -> "i"
      [] c = "D" -> "d"
      [] OTHER -> c

LowerCase(text) == [n \in DOMAIN text |-> LowerChar(text[n])]

\* String.prototype.includes
Includes(text, part) ==
    \E k \in 0..(Len(text) - Len(part)) : SubSeq(text, k + 1, k + Len(part)) = part

NameLimit == 50

\* post.content || post.post?.body || post.body || "": the texts are sequences
\* of characters, the empty one being the falsy one
SearchContent(p) ==
    IF "content" \in DOMAIN p /\ p["content"] # <<>> THEN p["content"]
    ELSE IF "post" \in DOMAIN p /\ "body" \in DOMAIN p["post"] /\ p["post"]["body"] # <<>>
    THEN p["post"]["body"]
    ELSE IF "body" \in DOMAIN p THEN p["body"]
    ELSE <<>>

\* the callback of posts.map in searchPosts
SearchItem(p) ==
    LET content == SearchContent(p)
        truncated == IF Len(content) > NameLimit
                     THEN SubSeq(content, 1, NameLimit) \o <<".", ".", ".">>
                     ELSE content
        status == IF Truthy(Get(p, "status"))
                  THEN <<" ", "[">> \o Chars(p["status"]) \o <<"]">> ELSE <<>>
        draft == IF Truthy(Get(p, "draft"))
                 THEN <<" ", "[", "d", "r", "a", "f", "t", "]">> ELSE <<>>
    IN  [name |-> truncated \o status \o draft,
         value |-> IF Get(p, "id") \in {Undef, Null} THEN "" ELSE p["id"],
         url |-> Or(Get(p, "url"), Undef)]

\* the callback of results.filter
Matches(item, filter) ==
    \/ Includes(LowerCase(item.name), LowerCase(filter))
    \/ Includes(LowerCase(Chars(item.value)), LowerCase(filter))

searchPosts(h, response) ==
    IF h.rejected \/ response.kind \in {"undefined", "null"}
    THEN LoadFailed("Failed to search posts")
    ELSE LET publish == ReadOperation(h) = Scalar("publish")
             posts == ResponseItems(response)
             kept == IF publish THEN SelectSeq(posts, IsDraft) ELSE posts
             results == [n \in DOMAIN kept |-> SearchItem(kept[n])]
             matches(item) == Matches(item, h.filter)
         IN  [threw |-> FALSE, message |-> "",
              query |-> IF publish THEN "status=draft" ELSE "",
              results |-> IF h.filter # <<>> THEN SelectSeq(results, matches)
                          ELSE results]

\* String(value) of a scalar
ToStr(v) ==
    CASE v = "~5" -> "5"
      [] v = "~0" -> "0"
      [] v = "~true" -> "true"
      [] v = "~false" -> "false"
      [] v = Null -> "null"
      [] v = Undef -> "undefined"
      [] OTHER -> v

\* getProfilesForGroup: profileGroupId after the nested try blocks
ReadGroup(h) ==
    IF ~h.current.threw THEN h.current.value
    ELSE IF ~h.indexed.threw THEN h.indexed.value
    ELSE IF ~h.node.threw THEN h.node.value
    ELSE Scalar(Undef)

\* groupIdValue, "" when the outer condition (profileGroupId &&
\* profileGroupId !== "") fails
GroupIdValue(h) ==
    LET profileGroupId == ReadGroup(h)
    IN  IF profileGroupId.kind = "object"
        THEN extractResourceLocatorValue(profileGroupId)
        ELSE IF Truthy(profileGroupId.s) THEN ToStr(profileGroupId.s)
        ELSE ""

\* the callback of profiles.filter
InGroupUncoerced(profile, groupIdValue) ==
    Get(profile, "profile_group_id") = groupIdValue

InGroup(profile, groupIdValue) ==
    ToStr(Or(Get(profile, "profile_group_id"), "")) = groupIdValue

\* the callback of profiles.map
ProfileOption(profile) ==
    [name |-> [profileName |-> Or(Or(Get(profile, "name"), Get(profile, "username")),
                                  "Profile " \o ToStr(Get(profile, "id"))),
               platformType |-> Or(Get(profile, "platform"), "unknown")],
     value |-> IF Get(profile, "id") \in {Undef, Null} THEN ""
               ELSE ToStr(profile["id"])]

getProfilesForGroup(h, response) ==
    IF h.rejected \/ response.kind \in {"undefined", "null"}
    THEN LoadFailed("Failed to load profiles")
    ELSE LET profiles == ResponseItems(response)
             inGroup(profile) == InGroup(profile, GroupIdValue(h))
             kept == IF Truthy(GroupIdValue(h)) THEN SelectSeq(profiles, inGroup)
                     ELSE profiles
         IN  [threw |-> FALSE, message |-> "", query |-> "",
              results |-> [n \in DOMAIN kept |-> ProfileOption(kept[n])]]

\* searchProfileGroups, getProfileGroups: response.data || []
GroupItems(response) ==
    IF response.kind = "object" /\ "data" \in DOMAIN response.payload
    THEN response.payload["data"] ELSE <<>>

\* the callback of groups.map: group.name || `Group ${group.id}`, the name a
\* sequence of characters
GroupOption(group) ==
    [name |-> IF "name" \in DOMAIN group /\ group["name"] # <<>> THEN group["name"]
              ELSE <<"G", "r", "o", "u", "p", " ">> \o Chars(ToStr(Get(group, "id"))),
     value |-> IF Get(group, "id") \in {Undef, Null} THEN "" ELSE ToStr(group["id"])]

searchProfileGroups(h, response) ==
    IF h.rejected \/ response.kind \in {"undefined", "null"}
    THEN LoadFailed("Failed to search profile groups")
    ELSE LET groups == GroupItems(response)
             results == [n \in DOMAIN groups |-> GroupOption(groups[n])]
             matches(item) == Matches(item, h.filter)
         IN  [threw |-> FALSE, message |-> "", query |-> "",
              results |-> IF h.filter # <<>> THEN SelectSeq(results, matches)
                          ELSE results]

\* value is group.id.toString(), a TypeError when the group has no id
getProfileGroups(h, response) ==
    IF \/ h.rejected
       \/ response.kind \in {"undefined", "null"}
       \/ \E n \in DOMAIN GroupItems(response) :
             Get(GroupItems(response)[n], "id") \in {Undef, Null}
    THEN LoadFailed("Failed to load profile groups")
    ELSE [threw |-> FALSE, message |-> "", query |-> "",
          results |-> [n \in DOMAIN GroupItems(response) |->
                          GroupOption(GroupItems(response)[n])]]

CarrierIdle ==
    /\ records = <<>>
    /\ byField = NoObj

LoadIdle ==
    /\ host = NoHost
    /\ listing = NoResponse
    /\ options = NotLoaded

\* the state of execute before it is invoked
ExecIdle ==
    /\ items = <<>>
    /\ continueOnFail = FALSE
    /\ server = [total |-> 0, perPage |-> 1]
    /\ i = 0
    /\ pc = "idle"
    /\ returnData = <<>>
    /\ thrown = NoThrow
    /\ output = <<>>
    /\ requests = <<>>
    /\ credentialCalls = 0
    /\ IdleLoop

(***************************************************************************)
(* Payloads handed to simplifyPost: every one has an id and at least one   *)
(* content field, in any of the three historical shapes.                   *)
(***************************************************************************)
\* the per-platform list field(s) of a payload
Carriers ==
    { NoObj,
      "platforms" :> <<PlatformEntries[1], PlatformEntries[2]>>,
      "networks" :> <<PlatformEntries[2]>>,
      "accounts" :> <<PlatformEntries[3], PlatformEntries[1]>>,
      ("platforms" :> <<>>) @@ ("networks" :> <<PlatformEntries[1]>>)
          @@ ("accounts" :> <<PlatformEntries[2]>>) }

NestedPosts ==
    { NoObj } \cup
    { "post" :> (Field("body", b) @@ Field("scheduled_at", s)) :
          b \in {Absent, "nested body"}, s \in {Absent, Null, "", "t1"} }

HasContentField(p) ==
    \/ "content" \in DOMAIN p
    \/ "body" \in DOMAIN p
    \/ ("post" \in DOMAIN p /\ "body" \in DOMAIN p["post"])

PostPayloads ==
    { p \in { ("id" :> "p1") @@ Field("content", c) @@ Field("body", b) @@ np
                 @@ Field("created_at", ca) @@ Field("scheduled_at", sa)
                 @@ Field("status", st) @@ Field("draft", dr)
                 @@ Field("updated_at", ua) @@ Field("profile_group_id", pg) @@ cr :
               c \in {Absent, "", "Hello"}, b \in {Absent, "top body"},
               np \in NestedPosts, ca \in {Absent, "c1"},
               sa \in {Absent, Null, "t2"}, st \in {Absent, Null, "draft"},
               dr \in {Absent, Null, "~true"}, ua \in {Absent, Null, "u1"},
               pg \in {Absent, Null, "g1"}, cr \in Carriers } :
        HasContentField(p) }

(***************************************************************************)
(* Raw values handed to extractResourceLocatorValue                        *)
(***************************************************************************)
LocatorInputs ==
    { Scalar(s) : s \in {"", "id1", "id2"} \cup NonStrings } \cup
    { Object(Field("mode", m) @@ Field("value", v) @@ Field("cachedResultName", n)) :
          m \in {Absent, "list", "id"},
          v \in {Absent, Undef, Null, "", "id1", "id2", "~0", "~5", "~false"},
          n \in {Absent, "Name"} }

(***************************************************************************)
(* Harness of simplifyPost: the normalizer applied to a payload, then to   *)
(* its own output.                                                         *)
(***************************************************************************)
InitSimplify ==
    /\ post \in PostPayloads
    /\ simplified = NoObj
    /\ resimplified = NoObj
    /\ locator = Scalar("")
    /\ extracted = ""
    /\ fnPc = "drawn"
    /\ outcome = Resolved(NoResponse)
    /\ made = NotMade
    /\ CarrierIdle
    /\ LoadIdle
    /\ ExecIdle

Simplify ==
    /\ fnPc = "drawn"
    /\ simplified' = simplifyPost(post)
    /\ fnPc' = "once"
    /\ UNCHANGED <<post, resimplified, locator, extracted, mrVars, inputVars, carrierVars, loadVars, exVars, loopVars>>

Resimplify ==
    /\ fnPc = "once"
    /\ resimplified' = simplifyPost(simplified)
    /\ fnPc' = "twice"
    /\ UNCHANGED <<post, simplified, locator, extracted, mrVars, inputVars, carrierVars, loadVars, exVars, loopVars>>

NextSimplify == Simplify \/ Resimplify

SpecSimplify == InitSimplify /\ [][NextSimplify]_vars

(***************************************************************************)
(* Harness of extractResourceLocatorValue                                  *)
(***************************************************************************)
InitLocator ==
    /\ post = NoObj
    /\ simplified = NoObj
    /\ resimplified = NoObj
    /\ locator \in LocatorInputs
    /\ extracted = ""
    /\ fnPc = "drawn"
    /\ outcome = Resolved(NoResponse)
    /\ made = NotMade
    /\ CarrierIdle
    /\ LoadIdle
    /\ ExecIdle

Extract ==
    /\ fnPc = "drawn"
    /\ extracted' = extractResourceLocatorValue(locator)
    /\ fnPc' = "extracted"
    /\ UNCHANGED <<post, simplified, resimplified, locator, mrVars, inputVars, carrierVars, loadVars, exVars, loopVars>>

NextLocator == Extract

SpecLocator == InitLocator /\ [][NextLocator]_vars

(***************************************************************************)
(* Harness of makeRequest: one call, settled in every way the transport    *)
(* can settle it.                                                          *)
(***************************************************************************)
Statuses == {0, 302, 400, 401, 404, 429, 499, 500, 503}

Errors ==
    [statusCode : Statuses, responseStatus : {0, 404}, requestId : {"", "req-1"},
     code : {"", "ETIMEDOUT", "ECONNABORTED", "ENOTFOUND", "ECONNREFUSED", "EPIPE"},
     bodyMessage : {"", "body message"}, bodyError : {"", "body error"},
     message : {"", "error message"}]

PlainResponses ==
    [kind : {"object", "array", "string", "undefined", "null"},
     requestId : {""}, payload : {NoObj}]
    \cup {[kind |-> "object", requestId |-> "req-1", payload |-> NoObj]}

Outcomes == {Resolved(r) : r \in PlainResponses} \cup {Rejected(e) : e \in Errors}

InitRequest ==
    /\ post = NoObj
    /\ simplified = NoObj
    /\ resimplified = NoObj
    /\ locator = Scalar("")
    /\ extracted = ""
    /\ fnPc = "drawn"
    /\ outcome \in Outcomes
    /\ made = NotMade
    /\ CarrierIdle
    /\ LoadIdle
    /\ ExecIdle

MakeRequest ==
    /\ fnPc = "drawn"
    /\ made' = makeRequest(outcome)
    /\ fnPc' = "made"
    /\ UNCHANGED <<post, simplified, resimplified, locator, extracted, outcome,
                   inputVars, carrierVars, loadVars, exVars, loopVars>>

NextRequest == MakeRequest

SpecRequest == InitRequest /\ [][NextRequest]_vars

(***************************************************************************)
(* execute on a batch of input items                                       *)
(***************************************************************************)
ListLocator(id) == Object(("mode" :> "list") @@ ("value" :> id))

Text(word) == <<" ">> \o word \o <<" ">>

BaseItem ==
    [resource |-> "post", operation |-> "create", content |-> <<"H", "i">>,
     publishType |-> "publish_now", profileGroup |-> ListLocator("g1"),
     profiles |-> <<"pr1">>, media |-> <<>>, publish_at |-> <<>>,
     platformParams |-> <<"{", "}">>, postId |-> ListLocator("p1"),
     profileId |-> Scalar("pr1"), updateFields |-> NoObj, simplify |-> TRUE,
     returnAll |-> FALSE, page |-> 0, per_page |-> 10, limit |-> 50]

StringMedia(url) == [kind |-> "string", url |-> url]

\* one item of every branch of execute, valid and invalid
BatchItems ==
    { BaseItem,
      [BaseItem EXCEPT !.content = <<" ">>, !.profileGroup = ListLocator("")],
      [BaseItem EXCEPT !.media = <<StringMedia(<<"f", "t", "p", ":", "/", "/", "x">>)>>],
      [BaseItem EXCEPT !.profiles = <<>>],
      [BaseItem EXCEPT !.publishType = "schedule", !.publish_at = <<" ">>],
      [BaseItem EXCEPT !.platformParams = <<"{", "b">>],
      [BaseItem EXCEPT !.operation = "get", !.postId = Scalar(Null)],
      [BaseItem EXCEPT !.operation = "update", !.postId = Scalar(""),
                       !.updateFields = "content" :> "New"],
      [BaseItem EXCEPT !.operation = "publish", !.postId = Object("mode" :> "id")],
      [BaseItem EXCEPT !.operation = "delete"],
      [BaseItem EXCEPT !.operation = "delete", !.postId = ListLocator("")],
      [BaseItem EXCEPT !.operation = "get"],
      [BaseItem EXCEPT !.operation = "getMany", !.limit = 1],
      [BaseItem EXCEPT !.operation = "update", !.updateFields = "content" :> "New"],
      [BaseItem EXCEPT !.operation = "update"],
      [BaseItem EXCEPT !.operation = "publish", !.simplify = FALSE],
      [BaseItem EXCEPT !.resource = "profile", !.operation = "get"],
      [BaseItem EXCEPT !.resource = "profile", !.operation = "get",
                       !.profileId = Scalar("")],
      [BaseItem EXCEPT !.resource = "profile", !.operation = "getMany",
                       !.returnAll = TRUE],
      [BaseItem EXCEPT !.resource = "profileGroup", !.operation = "getMany"],
      [BaseItem EXCEPT !.resource = "profile", !.operation = "delete"],
      [BaseItem EXCEPT !.resource = "profileGroup", !.operation = "get"] }

Batches == UNION { [1..n -> BatchItems] : n \in 0..MaxItems }

PureIdle ==
    /\ post = NoObj
    /\ simplified = NoObj
    /\ resimplified = NoObj
    /\ locator = Scalar("")
    /\ extracted = ""
    /\ fnPc = "idle"
    /\ outcome = Resolved(NoResponse)
    /\ made = NotMade
    /\ CarrierIdle
    /\ LoadIdle

ExecStart ==
    /\ i = 0
    /\ pc = "item"
    /\ returnData = <<>>
    /\ thrown = NoThrow
    /\ output = <<>>
    /\ requests = <<>>
    /\ credentialCalls = 0
    /\ IdleLoop

Init ==
    /\ PureIdle
    /\ items \in Batches
    /\ continueOnFail \in BOOLEAN
    /\ server = [total |-> 3, perPage |-> 2]
    /\ ExecStart

Next ==
    \/ CreatePost
    \/ DeletePost
    \/ GetPost
    \/ PublishPost
    \/ UpdatePostOp
    \/ GetProfile
    \/ GetMany("post")
    \/ GetMany("profile")
    \/ GetMany("profileGroup")
    \/ Unsupported
    \/ SettleEntity
    \/ SettlePage
    \/ Return

Spec == Init /\ [][Next]_vars

(***************************************************************************)
(* execute on one create-post item, over every combination of its inputs   *)
(***************************************************************************)
MaxMedia == 2   \* media fields of a create-post item

MediaValues ==
    { StringMedia(Text(HttpPrefix \o <<"a">>)),
      StringMedia(<<"f", "t", "p", ":", "/", "/", "x">>),
      StringMedia(<<" ">>),
      [kind |-> "urlObject", url |-> HttpsPrefix \o <<"b">>],
      [kind |-> "null", url |-> <<>>] }

MediaLists == UNION { [1..n -> MediaValues] : n \in 0..MaxMedia }

CreateItems ==
    { [BaseItem EXCEPT !.content = c, !.profileGroup = g, !.profiles = pr,
                       !.publishType = pt, !.publish_at = pa, !.media = me,
                       !.platformParams = pp] :
        c \in {<<>>, <<" ">>, Text(<<"H", "i">>)},
        g \in {ListLocator("g1"), ListLocator("")},
        pr \in {<<>>, <<"pr1", "pr2">>},
        pt \in {"publish_now", "schedule", "draft"},
        pa \in {<<>>, <<" ">>, Text(<<"T", "1">>)},
        me \in MediaLists,
        pp \in { <<>>, <<" ">>, <<"{", "}">>, <<"{", " ", "}">>, <<"{", "b">>,
                 <<"{", "\"", "a", "\"", ":", "1", "}">>, <<"n", "u", "l", "l">>,
                 <<"[", "1", "]">> } }

InitCreate ==
    /\ PureIdle
    /\ items \in { <<item>> : item \in CreateItems }
    /\ continueOnFail \in BOOLEAN
    /\ server = [total |-> 3, perPage |-> 2]
    /\ ExecStart

NextCreate == CreatePost \/ SettleEntity \/ Return

SpecCreate == InitCreate /\ [][NextCreate]_vars

(***************************************************************************)
(* execute on one update item: the post ID as a locator or a plain string, *)
(* present or empty, and each update field left out, undefined, empty or   *)
(* set.                                                                    *)
(***************************************************************************)
UpdateItems ==
    { [BaseItem EXCEPT !.operation = "update", !.postId = id,
                       !.updateFields = Field("content", c) @@ Field("scheduled_at", sa)] :
        id \in {ListLocator("p1"), ListLocator(""), Scalar("p2")},
        c \in {Absent, Undef, "", "New"}, sa \in {Absent, Undef, "", "t1"} }

InitUpdate ==
    /\ PureIdle
    /\ items \in { <<item>> : item \in UpdateItems }
    /\ continueOnFail \in BOOLEAN
    /\ server = [total |-> 3, perPage |-> 2]
    /\ ExecStart

NextUpdate == UpdatePostOp \/ SettleEntity \/ Return

SpecUpdate == InitUpdate /\ [][NextUpdate]_vars

(***************************************************************************)
(* execute on one getMany item, against servers of every size              *)
(***************************************************************************)
GetManyItems ==
    { [BaseItem EXCEPT !.resource = r, !.operation = "getMany", !.returnAll = ra,
                       !.simplify = sp, !.page = pg, !.per_page = pp, !.limit = li] :
        r \in {"post", "profile", "profileGroup"}, ra \in BOOLEAN, sp \in BOOLEAN,
        pg \in {0, 1}, pp \in {2, 10}, li \in {0, 1, 50} }

InitPaging ==
    /\ PureIdle
    /\ items \in { <<item>> : item \in GetManyItems }
    /\ continueOnFail \in BOOLEAN
    /\ server \in [total : 0..MaxTotal, perPage : 1..MaxPerPage]
    /\ ExecStart

NextPaging ==
    \/ GetMany("post")
    \/ GetMany("profile")
    \/ GetMany("profileGroup")
    \/ SettlePage
    \/ Return

SpecPaging == InitPaging /\ [][NextPaging]_vars

(***************************************************************************)
(* execute on one getMany item against a server that answers a page        *)
(* request with any number of entities up to its page size, in any of the  *)
(* envelopes, reporting its total or none.  outcome holds what the last    *)
(* page request settled with; the server answers MaxRequests requests.     *)
(***************************************************************************)
MaxRequests == 4   \* page requests the server answers

\* the server's next n entities after the `have` already served
ServedList(resource, have, n) == [k \in 1..n |-> ListEntity(resource, have + k)]

StreamResponses(resource, have) ==
    UNION { { AsObject(("data" :> ServedList(resource, have, n))
                       @@ ("total" :> server.total) @@ ("per_page" :> server.perPage)),
              AsObject("data" :> ServedList(resource, have, n)),
              AsObject("items" :> ServedList(resource, have, n)),
              [kind |-> "array", requestId |-> "",
               payload |-> ServedList(resource, have, n)] } :
            n \in 0..server.perPage }

StreamItems ==
    { [BaseItem EXCEPT !.resource = r, !.operation = "getMany", !.returnAll = ra,
                       !.simplify = FALSE] :
        r \in {"post", "profile", "profileGroup"}, ra \in BOOLEAN }

InitStream ==
    /\ PureIdle
    /\ items \in { <<item>> : item \in StreamItems }
    /\ continueOnFail = FALSE
    /\ server \in [total : 1..MaxTotal, perPage : 1..MaxPerPage]
    /\ ExecStart

SettleStreamPage ==
    /\ pc = "await"
    /\ Item.operation = "getMany"
    /\ Len(requests) <= MaxRequests
    /\ \E o \in {Resolved(r) : r \in StreamResponses(Item.resource, Len(allItems))}
                 \cup Failures :
          /\ Turn(o)
          /\ outcome' = o
    /\ UNCHANGED <<fnVars, made, inputVars, carrierVars, loadVars>>

NextStream ==
    \/ GetMany("post")
    \/ GetMany("profile")
    \/ GetMany("profileGroup")
    \/ SettleStreamPage
    \/ Return

SpecStream == InitStream /\ [][NextStream]_vars

(***************************************************************************)
(* Harness of simplifyPost over the per-platform list: one list, carried   *)
(* under each of the field names the API has used, and under none.         *)
(***************************************************************************)
MaxPlatforms == 2   \* entries of a per-platform list

PlatformRecords ==
    { Field("platform", pl) @@ Field("status", st) @@ Field("params", pa) :
        pl \in {Absent, "twitter", "facebook"},
        st \in {Absent, "published", "failed"},
        pa \in {Absent, Null} }

PlatformLists == UNION { [1..n -> PlatformRecords] : n \in 0..MaxPlatforms }

\* a different list, held by the fields that rank below the carrying one
Decoy == <<("platform" :> "decoy") @@ ("status" :> "pending")>>

Lower(name) ==
    CASE name = "platforms" -> {"networks", "accounts"}
      [] name = "networks" -> {"accounts"}
      [] OTHER -> {}

Carried(name, list, decoy) ==
    ("id" :> "p1") @@ ("content" :> "Hello")
        @@ (IF name = "none" THEN NoObj ELSE name :> list)
        @@ [k \in (IF decoy THEN Lower(name) ELSE {}) |-> Decoy]

InitCarrier ==
    /\ post = NoObj
    /\ simplified = NoObj
    /\ resimplified = NoObj
    /\ locator = Scalar("")
    /\ extracted = ""
    /\ fnPc = "carried"
    /\ outcome = Resolved(NoResponse)
    /\ made = NotMade
    /\ records \in PlatformLists
    /\ byField = NoObj
    /\ LoadIdle
    /\ ExecIdle

CarryUnder(name) ==
    /\ fnPc = "carried"
    /\ name \notin DOMAIN byField
    /\ \E decoy \in BOOLEAN :
          byField' = byField @@ (name :> simplifyPost(Carried(name, records, decoy)))
    /\ UNCHANGED <<fnVars, mrVars, inputVars, exVars, loopVars, records, loadVars>>

NextCarrier ==
    \/ CarryUnder("platforms")
    \/ CarryUnder("networks")
    \/ CarryUnder("accounts")
    \/ CarryUnder("none")

SpecCarrier == InitCarrier /\ [][NextCarrier]_vars

(***************************************************************************)
(* Harness of the per-platform mapping: a list of source entries whose     *)
(* optional fields are missing, null or set, one of them with a key the    *)
(* mapping does not know, simplified as the platforms of a post.  The      *)
(* mapping copies params and insights by reference: an object is the       *)
(* string that spells it.                                                  *)
(***************************************************************************)
LegacyFields ==
    { NoObj,
      ("profile_id" :> "pr1") @@ ("error" :> Null) @@ ("published_url" :> "u1")
          @@ ("insights" :> Null) @@ ("id" :> "e1"),
      ("error" :> "boom") @@ ("insights" :> "{views: 5}") }

PlatformSources ==
    { ("platform" :> pl) @@ ("status" :> "published") @@ Field("attempted_at", at)
          @@ Field("params", pa) @@ legacy :
        pl \in {"twitter", "facebook"}, at \in {Absent, Null, "a1"},
        pa \in {Absent, Null, "{title: t}"}, legacy \in LegacyFields }

InitPlatform ==
    /\ post = NoObj
    /\ simplified = NoObj
    /\ resimplified = NoObj
    /\ locator = Scalar("")
    /\ extracted = ""
    /\ fnPc = "listed"
    /\ outcome = Resolved(NoResponse)
    /\ made = NotMade
    /\ records \in UNION { [1..n -> PlatformSources] : n \in 0..MaxPlatforms }
    /\ byField = NoObj
    /\ LoadIdle
    /\ ExecIdle

SimplifyPlatforms ==
    /\ fnPc = "listed"
    /\ simplified' = simplifyPost(("id" :> "p1") @@ ("content" :> "Hello")
                                      @@ ("platforms" :> records))
    /\ fnPc' = "mapped"
    /\ UNCHANGED <<post, resimplified, locator, extracted, mrVars, inputVars, carrierVars, loadVars, exVars, loopVars>>

NextPlatform == SimplifyPlatforms

SpecPlatform == InitPlatform /\ [][NextPlatform]_vars

(***************************************************************************)
(* Harness of searchPosts: one call, for every way the host answers the    *)
(* parameter accessors and every listing the server may send.              *)
(***************************************************************************)
MaxPosts == 2   \* posts of a listing response

LongContent == [n \in 1..(NameLimit + 1) |-> "x"]

SearchPostKinds ==
    { ("content" :> <<"H", "i">>) @@ Field("status", st) @@ Field("draft", dr) :
        st \in {Absent, "draft", "processed"}, dr \in {Absent, "~true", "~false"} }
    \cup { ("content" :> LongContent) @@ ("status" :> "draft"),
           ("post" :> ("body" :> <<"D", "o">>)) @@ ("status" :> "processed") }

\* the server numbers its entities from 1
Numbered(list) == [n \in DOMAIN list |-> ("id" :> ToString(n)) @@ list[n]]

\* the envelopes a listing has come in: {data}, {items}, a bare array
Enveloped(list) ==
    { AsObject("data" :> list), AsObject("items" :> list),
      [kind |-> "array", requestId |-> "", payload |-> list] }

SearchListings ==
    UNION { Enveloped(Numbered(l)) :
              l \in UNION { [1..n -> SearchPostKinds] : n \in 0..MaxPosts } }

\* an accessor throws, finds nothing, or returns the selected value
Access(selected) == {Threw, Returned(Scalar(Undef)), Returned(selected)}

SearchHostsOf(selected) ==
    { [selected |-> selected, current |-> c, indexed |-> Threw, node |-> nd,
       filter |-> f, rejected |-> FALSE] :
        c \in Access(selected), nd \in Access(selected),
        f \in {<<>>, <<"h", "I">>, <<"1">>} }

SearchHosts == SearchHostsOf(Scalar("publish")) \cup SearchHostsOf(Scalar("get"))

InitSearch ==
    /\ post = NoObj
    /\ simplified = NoObj
    /\ resimplified = NoObj
    /\ locator = Scalar("")
    /\ extracted = ""
    /\ fnPc = "drawn"
    /\ outcome = Resolved(NoResponse)
    /\ made = NotMade
    /\ CarrierIdle
    /\ host \in SearchHosts \cup { [h EXCEPT !.rejected = TRUE] : h \in SearchHosts }
    /\ listing \in IF host.rejected THEN {NoResponse}
                   ELSE SearchListings \cup {NoResponse}
    /\ options = NotLoaded
    /\ ExecIdle

SearchPosts ==
    /\ fnPc = "drawn"
    /\ options' = searchPosts(host, listing)
    /\ fnPc' = "loaded"
    /\ UNCHANGED <<post, simplified, resimplified, locator, extracted, mrVars,
                   inputVars, exVars, loopVars, carrierVars, host, listing>>

NextSearch == SearchPosts

SpecSearch == InitSearch /\ [][NextSearch]_vars

(***************************************************************************)
(* Harness of getProfilesForGroup: one call, for every way the host        *)
(* answers the three accessors and every profile list the server may send. *)
(***************************************************************************)
MaxProfiles == 2   \* profiles of a listing response

ProfileKinds ==
    { ("name" :> "Bob") @@ ("platform" :> "twitter") @@ Field("profile_group_id", pg) :
        pg \in {Absent, Null, "g1", "g2", "~5"} }
    \cup { ("username" :> "bob") @@ ("profile_group_id" :> "g1"),
           ("platform" :> "twitter") @@ ("profile_group_id" :> "g2") }

ProfileListings ==
    UNION { Enveloped(Numbered(l)) :
              l \in UNION { [1..n -> ProfileKinds] : n \in 0..MaxProfiles } }

SelectedGroups ==
    { ListLocator("g1"), ListLocator(""), Object(("mode" :> "id") @@ ("value" :> "5")),
      Scalar("g2"), Scalar("~5") }

GroupHostsOf(selected) ==
    { [selected |-> selected, current |-> c, indexed |-> ix, node |-> nd,
       filter |-> <<>>, rejected |-> FALSE] :
        c \in Access(selected), ix \in Access(selected), nd \in Access(selected) }

GroupHosts == UNION { GroupHostsOf(selected) : selected \in SelectedGroups }

InitProfiles ==
    /\ post = NoObj
    /\ simplified = NoObj
    /\ resimplified = NoObj
    /\ locator = Scalar("")
    /\ extracted = ""
    /\ fnPc = "drawn"
    /\ outcome = Resolved(NoResponse)
    /\ made = NotMade
    /\ CarrierIdle
    /\ host \in GroupHosts \cup { [h EXCEPT !.rejected = TRUE] : h \in GroupHosts }
    /\ listing \in IF host.rejected THEN {NoResponse}
                   ELSE ProfileListings \cup {NoResponse}
    /\ options = NotLoaded
    /\ ExecIdle

GetProfilesForGroup ==
    /\ fnPc = "drawn"
    /\ options' = getProfilesForGroup(host, listing)
    /\ fnPc' = "loaded"
    /\ UNCHANGED <<post, simplified, resimplified, locator, extracted, mrVars,
                   inputVars, exVars, loopVars, carrierVars, host, listing>>

NextProfiles == GetProfilesForGroup

SpecProfiles == InitProfiles /\ [][NextProfiles]_vars

(***************************************************************************)
(* Harness of the listing consumers: one list of entities, sent in each of *)
(* the three envelopes to each consumer.                                   *)
(***************************************************************************)
MaxListed == 3   \* entities of a listing sent to the consumers

ListedKinds == { NoObj, "status" :> "draft" }

ListedLists == UNION { [1..n -> ListedKinds] : n \in 0..MaxListed }

Shapes == {"data", "items", "array"}

Wrap(shape, list) ==
    CASE shape = "data" -> AsObject("data" :> list)
      [] shape = "items" -> AsObject("items" :> list)
      [] shape = "array" -> [kind |-> "array", requestId |-> "", payload |-> list]

\* the identifiers of the entities a consumer takes from the response
Extracted(consumer, h, response) ==
    LET values(loaded) == [n \in DOMAIN loaded.results |-> loaded.results[n].value]
    IN  CASE consumer = "getMany"
                -> [n \in DOMAIN ResponseItems(response) |->
                       ResponseItems(response)[n]["id"]]
          [] consumer = "searchPosts" -> values(searchPosts(h, response))
          [] consumer = "getProfilesForGroup" -> values(getProfilesForGroup(h, response))
          [] consumer = "searchProfileGroups" -> values(searchProfileGroups(h, response))
          [] consumer = "getProfileGroups" -> values(getProfileGroups(h, response))

InitEnvelope ==
    /\ post = NoObj
    /\ simplified = NoObj
    /\ resimplified = NoObj
    /\ locator = Scalar("")
    /\ extracted = ""
    /\ fnPc = "wrapped"
    /\ outcome = Resolved(NoResponse)
    /\ made = NotMade
    /\ records \in { Numbered(l) : l \in ListedLists }
    /\ byField = NoObj
    /\ host \in { [NoHost EXCEPT !.filter = f] : f \in {<<>>, <<"1">>} }
    /\ listing = NoResponse
    /\ options = NotLoaded
    /\ ExecIdle

LoadFrom(consumer) ==
    /\ fnPc = "wrapped"
    /\ consumer \notin DOMAIN byField
    /\ byField' = byField @@
          (consumer :> [shape \in Shapes |-> Extracted(consumer, host, Wrap(shape, records))])
    /\ UNCHANGED <<fnVars, mrVars, inputVars, exVars, loopVars, records, loadVars>>

NextEnvelope ==
    \/ LoadFrom("getMany")
    \/ LoadFrom("searchPosts")
    \/ LoadFrom("getProfilesForGroup")
    \/ LoadFrom("searchProfileGroups")
    \/ LoadFrom("getProfileGroups")

SpecEnvelope == InitEnvelope /\ [][NextEnvelope]_vars

(***************************************************************************)
(* Harness of simplifyProfile                                              *)
(***************************************************************************)
ProfilePayloads ==
    { ("id" :> "pr1") @@ Field("name", nm) @@ Field("username", un)
          @@ Field("platform", pl) @@ Field("profile_group_id", pg)
          @@ Field("status", st) @@ Field("created_at", ca)
          @@ Field("expires_at", ex) @@ Field("post_count", pc0)
          @@ Field("avatar_url", av) :
        nm \in {Absent, "", "Bob"}, un \in {Absent, "bob"}, pl \in {Absent, "twitter"},
        pg \in {Absent, Null, "g1"}, st \in {Absent, "active"}, ca \in {Absent, "c1"},
        ex \in {Absent, Null, "e1"}, pc0 \in {Absent, Null, "~0", "~5"},
        av \in {Absent, "a.png"} }

InitProfile ==
    /\ post \in ProfilePayloads
    /\ simplified = NoObj
    /\ resimplified = NoObj
    /\ locator = Scalar("")
    /\ extracted = ""
    /\ fnPc = "drawn"
    /\ outcome = Resolved(NoResponse)
    /\ made = NotMade
    /\ CarrierIdle
    /\ LoadIdle
    /\ ExecIdle

SimplifyProfile ==
    /\ fnPc = "drawn"
    /\ simplified' = simplifyProfile(post)
    /\ fnPc' = "profiled"
    /\ UNCHANGED <<post, resimplified, locator, extracted, mrVars, inputVars,
                   exVars, loopVars, carrierVars, loadVars>>

NextProfile == SimplifyProfile

SpecProfile == InitProfile /\ [][NextProfile]_vars

SameObject(a, b) == DOMAIN a = DOMAIN b /\ \A k \in DOMAIN a : a[k] = b[k]

\* C1: simplifyPost is idempotent: simplifyPost(simplifyPost(x)) equals
\* simplifyPost(x), key for key and value for value, for every valid payload x.
C1_Idempotent == fnPc = "twice" => SameObject(resimplified, simplified)

\* C10 as stated: a plain non-empty string returns itself, an object
\* {mode, value} returns value, and null, undefined, a non-object non-string
\* or an object without value returns the empty string.
HasValue(o) == "value" \in DOMAIN o /\ o["value"] \notin {Undef, Null}

C10_ReturnsValue ==
    fnPc = "extracted" =>
        /\ (TypeofString(locator) /\ locator.s # "" => extracted = locator.s)
        /\ (locator.kind = "object" /\ HasValue(locator.o)
                => extracted = locator.o["value"])
        /\ (locator.kind = "scalar" /\ ~IsString(locator.s) => extracted = "")
        /\ (locator.kind = "object" /\ ~HasValue(locator.o) => extracted = "")

\* C10 amended: a plain string returns itself; an object {mode, value} returns
\* value when value is truthy and the empty string when value is falsy (absent,
\* undefined, null, "", 0, false); null, undefined and every other non-object
\* non-string return the empty string.
C10_ReturnsTruthyValue ==
    fnPc = "extracted" =>
        /\ (TypeofString(locator) => extracted = locator.s)
        /\ (locator.kind = "object" /\ Truthy(Get(locator.o, "value"))
                => extracted = locator.o["value"])
        /\ (locator.kind = "object" /\ ~Truthy(Get(locator.o, "value"))
                => extracted = "")
        /\ (locator.kind = "scalar" /\ ~IsString(locator.s) => extracted = "")

\* C10 witness: a locator object whose value is falsy but set has been extracted.
C10_Witness ==
    /\ fnPc = "extracted"
    /\ locator.kind = "object"
    /\ {"mode", "value"} \subseteq DOMAIN locator.o
    /\ locator.o["value"] = "~0"
    /\ extracted = ""

(***************************************************************************)
(* What happened to input item n (0-based)                                 *)
(***************************************************************************)
\* item n is over: execute went past it, or left with its error
Processed(n) == i > n \/ (pc = "thrown" /\ i = n)

\* item n ended in an error
Failed(n) ==
    \/ pc = "thrown" /\ i = n
    \/ n < Len(returnData) /\ "error" \in DOMAIN returnData[n + 1].json.payload

\* the message of the error item n ended in
Raised(n) ==
    IF pc = "thrown" /\ i = n THEN thrown.message
    ELSE returnData[n + 1].json.payload["error"]

RequestsOf(n) == {k \in DOMAIN requests : requests[k].item = n}

Blank(str) == \A k \in DOMAIN str : str[k] = " "

NoId(raw) ==
    \/ raw.kind = "scalar" /\ raw.s \in Falsy
    \/ raw.kind = "object" /\ Get(raw.o, "value") \in Falsy

AllMediaInvalid(media) ==
    /\ \E k \in DOMAIN media : ~Blank(media[k].url)
    /\ \A k \in DOMAIN media : ~Blank(media[k].url) => ~IsHttpUrl(Trim(media[k].url))

Unparsable(text) == ~Blank(text) /\ text # <<"{", "}">> /\ ParseJson(text).threw

\* the input of the item violates a local check of its branch
LocallyInvalid(item) ==
    \/ /\ item.resource = "post" /\ item.operation = "create"
       /\ \/ Blank(item.content)
          \/ NoId(item.profileGroup)
          \/ item.profiles = <<>>
          \/ item.publishType = "schedule" /\ Blank(item.publish_at)
          \/ AllMediaInvalid(item.media)
          \/ Unparsable(item.platformParams)
    \/ /\ item.resource = "post"
       /\ item.operation \in {"delete", "get", "update", "publish"}
       /\ NoId(item.postId)
    \/ /\ item.resource = "post" /\ item.operation = "update"
       /\ \A k \in {"content", "scheduled_at"} : Get(item.updateFields, k) \in {Undef, ""}
    \/ /\ item.resource = "profile" /\ item.operation = "get"
       /\ NoId(item.profileId)

CeilDiv(n, k) == (n + k - 1) \div k

\* a return-all getMany ended with its envelope
ReturnAllDone ==
    /\ items[1].returnAll
    /\ Processed(0)
    /\ ~Failed(0)

\* C2 as stated: in return-all mode, against a server that reports total = N and
\* serves pages of size k, exactly ceil(N/k) requests are issued and N items are
\* accumulated, for every N >= 0 and k >= 1.
C2_CeilRequests ==
    ReturnAllDone =>
        /\ Cardinality(RequestsOf(0)) = CeilDiv(server.total, server.perPage)
        /\ Len(returnData[1].json.payload["data"]) = server.total

\* C2 amended: exactly ceil(N/k) requests are issued for every N >= 1, and exactly
\* one request for N = 0 (the first page is always fetched); N items are
\* accumulated in both cases.
C2_CeilRequestsAtLeastOne ==
    ReturnAllDone =>
        /\ Cardinality(RequestsOf(0))
             = (IF server.total = 0 THEN 1
                ELSE CeilDiv(server.total, server.perPage))
        /\ Len(returnData[1].json.payload["data"]) = server.total

\* C2 witness: a return-all listing of more than two pages, the last one short,
\* has ended.
C2_Witness ==
    /\ ReturnAllDone
    /\ server.total = 5
    /\ server.perPage = 2
    /\ Len(requests) = 3
    /\ Len(returnData[1].json.payload["data"]) = 5

\* C3: create-post validation is first-violation-wins in the order content,
\* profile group, profiles, publish-at (the last only under 'schedule'): the error
\* raised is that of the earliest violated check.
C3_FirstViolationWins ==
    pc # "item" \/ i > 0 =>
        LET item == items[1]
            noContent == Blank(item.content)
            noGroup == NoId(item.profileGroup)
            noProfiles == item.profiles = <<>>
            noDate == item.publishType = "schedule" /\ Blank(item.publish_at)
        IN  /\ (noContent =>
                    Failed(0) /\ Raised(0).text = "Content cannot be empty")
            /\ (~noContent /\ noGroup =>
                    Failed(0) /\ Raised(0).text = "Profile Group must be selected")
            /\ (~noContent /\ ~noGroup /\ noProfiles =>
                    Failed(0) /\ Raised(0).text = "At least one profile must be selected")
            /\ (~noContent /\ ~noGroup /\ ~noProfiles /\ noDate =>
                    Failed(0) /\ Raised(0).text = "Publish At date is required")
            /\ (~noContent /\ ~noGroup /\ ~noProfiles /\ ~noDate /\ Failed(0) =>
                    Raised(0).text \notin {"Content cannot be empty",
                                           "Profile Group must be selected",
                                           "At least one profile must be selected",
                                           "Publish At date is required"})

\* C3 witness: blank content together with no profile group, no profiles and a
\* missing date failed with the content error.
C3_Witness ==
    /\ Processed(0)
    /\ Blank(items[1].content)
    /\ NoId(items[1].profileGroup)
    /\ items[1].profiles = <<>>
    /\ items[1].publishType = "schedule"
    /\ Failed(0)
    /\ Raised(0).text = "Content cannot be empty"

\* C4: every locally detected validation failure raises its error with zero HTTP
\* requests issued for that item.
C4_NoRequestOnValidationFailure ==
    \A n \in 0..(Len(items) - 1) :
        /\ (LocallyInvalid(items[n + 1]) => RequestsOf(n) = {})
        /\ (LocallyInvalid(items[n + 1]) /\ Processed(n) =>
                /\ Failed(n)
                /\ Raised(n).text \in
                     {"Content cannot be empty", "Profile Group must be selected",
                      "At least one profile must be selected",
                      "Publish At date is required", "Invalid media URLs provided",
                      "Invalid Platform Parameters JSON", "Post ID is required",
                      "Profile ID is required",
                      "At least one field must be provided to update"})

\* C4 witness: an item with an empty post ID failed after an earlier item had
\* issued its request.
C4_Witness ==
    /\ Len(items) = 2
    /\ Processed(1)
    /\ items[2].operation = "publish"
    /\ NoId(items[2].postId)
    /\ Failed(1)
    /\ Raised(1).text = "Post ID is required"
    /\ RequestsOf(0) # {}
    /\ RequestsOf(1) = {}

\* C5: the "not supported" error is raised for an item exactly when its
\* resource/operation pair is not a supported combination, and without any HTTP
\* request issued for that item; a supported operation whose call succeeded,
\* whatever the response body, never ends in it.
C5_UnsupportedExactly ==
    \A n \in 0..(Len(items) - 1) :
        Processed(n) =>
            /\ (Failed(n) /\ Raised(n).text = UnsupportedError.message.text
                    <=> <<items[n + 1].resource, items[n + 1].operation>> \notin Supported)
            /\ (Failed(n) /\ Raised(n).text = UnsupportedError.message.text
                    => RequestsOf(n) = {})

\* C5 witness: a delete whose call went out has been processed and an unsupported
\* pair after it ended in the error.
C5_Witness ==
    /\ Len(items) = 2
    /\ Processed(1)
    /\ items[1].operation = "delete"
    /\ RequestsOf(0) # {}
    /\ ~Failed(0)
    /\ returnData[1].json.kind = "string"
    /\ items[2].resource = "profileGroup" /\ items[2].operation = "get"
    /\ Failed(1)
    /\ Raised(1).text = UnsupportedError.message.text

\* C6: under continue-on-failure execute never throws because of an item error
\* and returns exactly one output item per input item, in input order, each
\* paired with its input index; a failed item yields {error, description} and
\* later items are still processed.
C6_ContinueOnFail ==
    continueOnFail =>
        /\ pc # "thrown"
        /\ thrown = NoThrow
        /\ Len(returnData) = i
        /\ \A n \in DOMAIN returnData : returnData[n].pairedItem = n - 1
        /\ \A n \in DOMAIN returnData :
              LocallyInvalid(items[n]) =>
                  DOMAIN returnData[n].json.payload = {"error", "description"}
        /\ (pc = "returned" => output = returnData /\ Len(output) = Len(items))

\* C6 witness: a batch whose first item failed locally has been returned with
\* both items' outputs.
C6_Witness ==
    /\ continueOnFail
    /\ pc = "returned"
    /\ Len(items) = 2
    /\ LocallyInvalid(items[1])
    /\ Failed(0)
    /\ ~Failed(1)
    /\ RequestsOf(1) # {}
    /\ Len(output) = 2

\* C7: without continue-on-failure the items are processed in index order and
\* the first item error aborts execute: the error propagates, no request is
\* issued for any later item and no output items are returned.
C7_FirstErrorAborts ==
    ~continueOnFail =>
        /\ \A k \in DOMAIN requests : requests[k].item <= i
        /\ \A k \in DOMAIN requests :
              k > 1 => requests[k - 1].item <= requests[k].item
        /\ \A n \in DOMAIN returnData : ~Failed(n - 1)
        /\ \A n \in 0..(Len(items) - 1) :
              LocallyInvalid(items[n + 1]) =>
                  /\ i <= n
                  /\ pc # "returned"
                  /\ \A k \in DOMAIN requests : requests[k].item < n
        /\ (pc = "thrown" => thrown # NoThrow /\ output = <<>>)
        /\ (pc = "returned" => thrown = NoThrow /\ Len(output) = Len(items))

\* C7 witness: the first of two items failed and execute left with its error,
\* the second item untouched.
C7_Witness ==
    /\ ~continueOnFail
    /\ pc = "thrown"
    /\ Len(items) = 2
    /\ i = 0
    /\ thrown.type = "NodeApiError"
    /\ RequestsOf(0) # {}
    /\ RequestsOf(1) = {}
    /\ output = <<>>

\* the status the catch block acts on: error.statusCode || error.response?.status
FailedStatus == IF outcome.error.statusCode # 0 THEN outcome.error.statusCode
                ELSE outcome.error.responseStatus

HasHint(h) == \E n \in DOMAIN made.error.description :
                  made.error.description[n] = HintPiece(h)

\* C8: every error thrown by makeRequest whose failed call carries an
\* x-request-id header has a description that starts with "Request ID: <id>",
\* for every failure kind.
C8_RequestIdFirst ==
    fnPc = "made" /\ made.threw /\ ~outcome.ok /\ outcome.error.requestId # ""
        => made.error.description[1] = RequestIdPiece(outcome.error.requestId)

\* C9: a failed call is classified by status first and transport code second:
\* 400..499 is the client error with the credential hint exactly for 401, the
\* not-found hint exactly for 404 and the rate-limit hint exactly for 429;
\* >= 500 is the server error, always with the retry-later hint; no status and
\* ETIMEDOUT/ECONNABORTED is the timeout; no status and ENOTFOUND/ECONNREFUSED
\* is the connection failure.
C9_Classification ==
    fnPc = "made" /\ ~outcome.ok =>
        /\ made.threw /\ made.error.type = "NodeApiError"
        /\ (FailedStatus >= 400 /\ FailedStatus <= 499 =>
                /\ made.error.message
                     = [text |-> "PostProxy API error", status |-> FailedStatus]
                /\ (HasHint("Please check your API credentials.") <=> FailedStatus = 401)
                /\ (HasHint("The requested resource was not found.") <=> FailedStatus = 404)
                /\ (HasHint("Rate limit exceeded. Please try again later.")
                        <=> FailedStatus = 429)
                /\ ~HasHint("Please try again later or contact PostProxy support."))
        /\ (FailedStatus >= 500 =>
                /\ made.error.message
                     = [text |-> "PostProxy API server error", status |-> FailedStatus]
                /\ HasHint("Please try again later or contact PostProxy support."))
        /\ (FailedStatus = 0 /\ outcome.error.code \in {"ETIMEDOUT", "ECONNABORTED"} =>
                made.error.message.text = "PostProxy API request timed out")
        /\ (FailedStatus = 0 /\ outcome.error.code \in {"ENOTFOUND", "ECONNREFUSED"} =>
                made.error.message.text = "PostProxy API connection failed")
        /\ (FailedStatus # 0 =>
                made.error.message.text \notin {"PostProxy API request timed out",
                                                "PostProxy API connection failed"})

\* C9 witness: a 429 that also carries a transport code was classified as the
\* client error with the rate-limit hint.
C9_Witness ==
    /\ fnPc = "made"
    /\ ~outcome.ok
    /\ FailedStatus = 429
    /\ outcome.error.code = "ETIMEDOUT"
    /\ made.error.message = [text |-> "PostProxy API error", status |-> 429]
    /\ HasHint("Rate limit exceeded. Please try again later.")

\* C11: simplifyPost takes the per-platform list from platforms, else from
\* networks, else from accounts, else it is empty: the same list carried under
\* any one of the three field names yields identical platform/status pairs,
\* position by position, whatever the lower-ranking fields hold.
Pairs(out) ==
    [n \in DOMAIN out["platforms"] |->
        <<out["platforms"][n]["platform"], out["platforms"][n]["status"]>>]

C11_SameUnderAnyField ==
    /\ \A a \in DOMAIN byField \ {"none"} :
          /\ Len(byField[a]["platforms"]) = Len(records)
          /\ \A b \in DOMAIN byField \ {"none"} : Pairs(byField[a]) = Pairs(byField[b])
    /\ ("none" \in DOMAIN byField => byField["none"]["platforms"] = <<>>)

C11_Witness ==
    /\ DOMAIN byField = {"platforms", "networks", "accounts", "none"}
    /\ Len(records) = 2
    /\ Pairs(byField["networks"]) = <<<<"twitter", "published">>, <<Undef, "failed">>>>
    /\ Pairs(byField["accounts"]) = Pairs(byField["platforms"])

\* item n has been through its branch: it failed, or its request went out
Attempted(n) == Processed(n) \/ (i = n /\ pc = "await")

\* the create-post item passes the four checks made before the body is built
PassesChecks(item) ==
    /\ ~Blank(item.content)
    /\ ~NoId(item.profileGroup)
    /\ item.profiles # <<>>
    /\ ~(item.publishType = "schedule" /\ Blank(item.publish_at))

\* C12: create-post with publishType 'publish_now', valid content, group and
\* profiles, no media and default platform parameters issues exactly one request,
\* POST /posts, whose body is exactly {post: {body: trim(content)}, profiles}: no
\* scheduled_at, draft, media, params or profile-group key, whatever publish_at
\* holds.
C12_PublishNowBody ==
    LET item == items[1]
    IN  /\ Attempted(0)
        /\ item.publishType = "publish_now"
        /\ PassesChecks(item)
        /\ item.media = <<>>
        /\ item.platformParams = <<"{", "}">>
        => /\ Len(requests) = 1
           /\ requests[1].method = "POST"
           /\ requests[1].endpoint = "/posts"
           /\ requests[1].body
                = ("post" :> ("body" :> Trim(item.content)))
                    @@ ("profiles" :> item.profiles)

\* C12 witness: a publish-now item with padded content and a publish_at value
\* was sent with the bare two-key body.
C12_Witness ==
    /\ Processed(0)
    /\ ~Failed(0)
    /\ items[1].publishType = "publish_now"
    /\ items[1].content = <<" ", "H", "i", " ">>
    /\ items[1].publish_at = <<" ", "T", "1", " ">>
    /\ items[1].media = <<>>
    /\ items[1].platformParams = <<"{", "}">>
    /\ Len(requests) = 1
    /\ DOMAIN requests[1].body = {"post", "profiles"}
    /\ requests[1].body["post"] = ("body" :> <<"H", "i">>)

\* C13: every issued create-post request carries post.scheduled_at exactly when
\* publish_at is non-blank and publishType is 'schedule' or 'draft', with value
\* publish_at trimmed; every issued 'schedule' request carries a non-empty
\* post.scheduled_at.
C13_ScheduledAt ==
    \A k \in DOMAIN requests :
        LET item == items[requests[k].item + 1]
            sent == requests[k].body["post"]
        IN  /\ ("scheduled_at" \in DOMAIN sent)
                <=> (~Blank(item.publish_at) /\ item.publishType \in {"schedule", "draft"})
            /\ ("scheduled_at" \in DOMAIN sent
                    => sent["scheduled_at"] = Trim(item.publish_at))
            /\ (item.publishType = "schedule"
                    => "scheduled_at" \in DOMAIN sent /\ ~Blank(sent["scheduled_at"]))

\* C13 witness: a 'schedule' request went out with the trimmed publish_at.
C13_Witness ==
    /\ Len(requests) = 1
    /\ items[1].publishType = "schedule"
    /\ items[1].publish_at = <<" ", "T", "1", " ">>
    /\ requests[1].body["post"]["scheduled_at"] = <<"T", "1">>

\* the media value yields a non-blank URL that begins with http:// or https://
YieldsHttpUrl(value) ==
    /\ value.kind \in {"string", "urlObject"}
    /\ ~Blank(value.url)
    /\ IsHttpUrl(Trim(value.url))

\* C14: in every issued create-post request body.media is present iff at least
\* one supplied media value yields a non-blank URL beginning with http:// or
\* https://; when present it is non-empty and holds exactly those URLs, trimmed
\* and in input order, with no blank and no non-http(s) entry.
C14_MediaField ==
    \A k \in DOMAIN requests :
        LET item == items[requests[k].item + 1]
            body == requests[k].body
            good == SelectSeq(item.media, YieldsHttpUrl)
        IN  /\ ("media" \in DOMAIN body) <=> (good # <<>>)
            /\ ("media" \in DOMAIN body =>
                    /\ Len(body["media"]) = Len(good)
                    /\ Len(body["media"]) > 0
                    /\ \A n \in DOMAIN good :
                          /\ body["media"][n] = Trim(good[n].url)
                          /\ body["media"][n][1] # " "
                          /\ body["media"][n][Len(body["media"][n])] # " "
                          /\ IsHttpUrl(body["media"][n]))

\* C14 witness: a blank field, a padded http URL: only the URL went out, trimmed.
C14_Witness ==
    /\ pc = "await"
    /\ items[1].media = <<StringMedia(<<" ">>),
                          StringMedia(<<" ">> \o HttpPrefix \o <<"a", " ">>)>>
    /\ requests[1].body["media"] = <<HttpPrefix \o <<"a">>>>

\* C15: a create-post item that passes the checks made before the media step
\* raises 'Invalid media URLs provided' iff at least one non-blank media URL was
\* supplied and none of the supplied URLs starts with http:// or https://; when at
\* least one supplied URL is valid the invalid ones are dropped without error and
\* (the platform parameters being parsable) the request is sent.
C15_MediaError ==
    LET item == items[1]
        mediaFailed == Failed(0) /\ Raised(0).text = "Invalid media URLs provided"
    IN  Attempted(0) /\ PassesChecks(item) =>
            /\ mediaFailed <=> AllMediaInvalid(item.media)
            /\ ((\E n \in DOMAIN item.media : YieldsHttpUrl(item.media[n])) =>
                    /\ ~mediaFailed
                    /\ (~Unparsable(item.platformParams) =>
                            /\ Len(requests) = 1
                            /\ \A n \in DOMAIN requests[1].body["media"] :
                                  IsHttpUrl(requests[1].body["media"][n])))

\* C15 witness: an ftp URL next to an https one: the item did not fail and the
\* request carries the https URL alone.
C15_Witness ==
    /\ Processed(0)
    /\ ~Failed(0)
    /\ items[1].media = <<StringMedia(<<"f", "t", "p", ":", "/", "/", "x">>),
                          [kind |-> "urlObject", url |-> HttpsPrefix \o <<"b">>]>>
    /\ Len(requests) = 1
    /\ requests[1].body["media"] = <<HttpsPrefix \o <<"b">>>>

\* the description of the error item n ended in
RaisedDescription(n) ==
    IF pc = "thrown" /\ i = n THEN thrown.description
    ELSE returnData[n + 1].json.payload["description"]

\* C16: for a create-post item that reaches the platform-parameter step, a
\* platformParams string that fails to parse raises 'Invalid Platform Parameters
\* JSON' with a description naming the JSON error, and no request is sent;
\* body.params is present in an issued request iff the string parses to a
\* non-empty object (by the code's typeof test, which a non-empty array passes);
\* an empty object, blank input and '{}' are omitted.
C16_PlatformParams ==
    LET item == items[1]
        parsed == ParseJson(item.platformParams)
    IN  /\ (/\ Attempted(0)
            /\ PassesChecks(item)
            /\ ~AllMediaInvalid(item.media)
            /\ Unparsable(item.platformParams)
            => /\ Failed(0)
               /\ Raised(0).text = "Invalid Platform Parameters JSON"
               /\ \E n \in DOMAIN RaisedDescription(0) :
                     RaisedDescription(0)[n] = MessagePiece(parsed.error)
               /\ requests = <<>>)
        /\ \A k \in DOMAIN requests :
              /\ ("params" \in DOMAIN requests[k].body)
                    <=> (~parsed.threw /\ parsed.isObject /\ parsed.keys > 0)
              /\ (Blank(item.platformParams) \/ item.platformParams = <<"{", "}">>
                    => "params" \notin DOMAIN requests[k].body)

\* C16 witness: an unparsable platformParams text failed the item before any
\* request.
C16_Witness ==
    /\ Processed(0)
    /\ items[1].platformParams = <<"{", "b">>
    /\ Failed(0)
    /\ Raised(0).text = "Invalid Platform Parameters JSON"
    /\ requests = <<>>

\* a bounded listing has ended without failure
BoundedDone ==
    /\ ~items[1].returnAll
    /\ Processed(0)
    /\ ~Failed(0)

\* C17: in bounded mode (returnAll = false) a getMany operation issues exactly
\* one HTTP request, carrying the caller's page and per_page, and the returned
\* data is the first min(limit, number received) items of that single response,
\* in server order.
C17_BoundedSingleRequest ==
    ~items[1].returnAll =>
        /\ Len(requests) <= 1
        /\ (Attempted(0) => Len(requests) = 1)
        /\ \A k \in DOMAIN requests :
              /\ requests[k].page = items[1].page
              /\ requests[k].per_page = items[1].per_page
        /\ (BoundedDone =>
              LET received == ServerPage(items[1].resource, items[1].page).payload["data"]
                  data == returnData[1].json.payload["data"]
                  want == IF items[1].limit < Len(received)
                          THEN items[1].limit ELSE Len(received)
              IN  /\ Len(data) = want
                  /\ \A n \in 1..want : data[n]["id"] = received[n]["id"])

\* C17 witness: page 1 of a server holding 5 entities in pages of 3, limit 1: one
\* request, and the data is the fourth entity alone.
C17_Witness ==
    /\ BoundedDone
    /\ server = [total |-> 5, perPage |-> 3]
    /\ items[1].page = 1
    /\ items[1].limit = 1
    /\ Len(requests) = 1
    /\ Len(returnData[1].json.payload["data"]) = 1
    /\ returnData[1].json.payload["data"][1]["id"] = "4"

\* C18: the getMany output envelope reports in total the number of entities the
\* server knows, in bounded mode as well as in return-all mode.
C18_TotalIsServerTotal ==
    Processed(0) /\ ~Failed(0) => returnData[1].json.payload["total"] = server.total

\* the post is a draft: status 'draft', or the draft flag true
DraftPost(p) ==
    \/ ("status" \in DOMAIN p /\ p["status"] = "draft")
    \/ ("draft" \in DOMAIN p /\ p["draft"] = "~true")

\* every entry searchPosts returned is that of a draft post of the listing
OnlyDrafts ==
    \A n \in DOMAIN options.results :
        \A m \in DOMAIN ResponseItems(listing) :
            ResponseItems(listing)[m]["id"] = options.results[n].value
                => DraftPost(ResponseItems(listing)[m])

\* C19 as stated: when searchPosts is invoked in the context of the 'publish'
\* operation, every returned entry is that of a post whose status is 'draft' or
\* whose draft flag is true, whatever the server sends.
C19_PublishOnlyDrafts ==
    fnPc = "loaded" /\ ~options.threw /\ host.selected = Scalar("publish")
        => OnlyDrafts

\* C19 amended: when searchPosts reads the operation as 'publish' (from
\* getCurrentNodeParameter, or, when that throws, from the node's stored
\* parameters), every returned entry is that of a draft post, whatever the
\* server sends.
C19_ReadAsPublishOnlyDrafts ==
    fnPc = "loaded" /\ ~options.threw /\ ReadOperation(host) = Scalar("publish")
        => OnlyDrafts

\* C19 witness: the first accessor threw, the node's parameters held 'publish';
\* of a processed post and a draft the search returned the draft alone.
C19_Witness ==
    /\ fnPc = "loaded"
    /\ host.current = Threw
    /\ host.node = Returned(Scalar("publish"))
    /\ host.filter = <<>>
    /\ Len(ResponseItems(listing)) = 2
    /\ ~DraftPost(ResponseItems(listing)[1])
    /\ DraftPost(ResponseItems(listing)[2])
    /\ Len(options.results) = 1
    /\ options.results[1].value = "2"

\* the profile's group identifier, coerced to string, is the given ID
OfGroup(profile, id) ==
    "profile_group_id" \in DOMAIN profile /\ ToStr(profile["profile_group_id"]) = id

C21_SameListAnyEnvelope ==
    \A consumer \in DOMAIN byField :
        /\ byField[consumer]["items"] = byField[consumer]["data"]
        /\ byField[consumer]["array"] = byField[consumer]["data"]

\* C22: within one execute invocation the credential is resolved from the host
\* exactly once, however many input items are processed and however many HTTP
\* requests (return-all pages included) are issued: it is never resolved a second
\* time, and an invocation that issued a request resolved it once.
C22_CredentialOnce ==
    /\ credentialCalls <= 1
    /\ (pc \in {"returned", "thrown"} /\ requests # <<>> => credentialCalls = 1)

\* the six keys simplifyProfile always returns, copied from the input, name
\* being the input's name when it has a non-empty one and its username otherwise
CopiesProfile ==
    /\ \A k \in {"id", "platform", "profile_group_id", "status", "created_at"} :
          k \in DOMAIN simplified /\ simplified[k] = Get(post, k)
    /\ "name" \in DOMAIN simplified
    /\ simplified["name"] = IF "name" \in DOMAIN post /\ post["name"] \notin {"", Null}
                            THEN post["name"] ELSE Get(post, "username")
    /\ \A k \in {"expires_at", "post_count"} :
          k \in DOMAIN simplified => simplified[k] = post[k]
    /\ DOMAIN simplified \subseteq
          {"id", "name", "platform", "profile_group_id", "status", "created_at",
           "expires_at", "post_count"}

\* C23 as stated: simplifyProfile returns exactly {id, name, platform,
\* profile_group_id, status, created_at} copied from the input, name being the
\* input's name when it has one and its username otherwise, plus expires_at and
\* post_count each exactly when that field is present in the input; no other key.
C23_ProfileKeys ==
    fnPc = "profiled" =>
        /\ CopiesProfile
        /\ \A k \in {"expires_at", "post_count"} :
              k \in DOMAIN simplified <=> k \in DOMAIN post

\* C23 amended: as stated, except that expires_at appears exactly when the input
\* has the field with a value other than null (post_count appears whenever the
\* input has the field, null included).
C23_ProfileKeysNonNullExpiry ==
    fnPc = "profiled" =>
        /\ CopiesProfile
        /\ ("post_count" \in DOMAIN simplified <=> "post_count" \in DOMAIN post)
        /\ ("expires_at" \in DOMAIN simplified
                <=> ("expires_at" \in DOMAIN post /\ post["expires_at"] # Null))

\* C23 witness: a profile with expires_at null, post_count null and only a
\* username was simplified: post_count is kept, expires_at is not.
C23_Witness ==
    /\ fnPc = "profiled"
    /\ "name" \notin DOMAIN post
    /\ "expires_at" \in DOMAIN post /\ post["expires_at"] = Null
    /\ "post_count" \in DOMAIN post /\ post["post_count"] = Null
    /\ simplified["name"] = "bob"
    /\ DOMAIN simplified = {"id", "name", "platform", "profile_group_id", "status",
                            "created_at", "post_count"}

\* the source has the nested post.scheduled_at field
HasNestedScheduledAt == "post" \in DOMAIN post /\ "scheduled_at" \in DOMAIN post["post"]

\* C24: simplifyPost's output scheduled_at is the nested post.scheduled_at
\* whenever the nested field is present, and the top-level scheduled_at
\* otherwise; the output has a scheduled_at key exactly when at least one of the
\* two is present in the source, and its value is then never undefined.
C24_ScheduledAtSource ==
    fnPc = "once" =>
        /\ "scheduled_at" \in DOMAIN simplified
              <=> (HasNestedScheduledAt \/ "scheduled_at" \in DOMAIN post)
        /\ ("scheduled_at" \in DOMAIN simplified =>
              /\ simplified["scheduled_at"] # Undef
              /\ simplified["scheduled_at"]
                    = IF HasNestedScheduledAt THEN post["post"]["scheduled_at"]
                      ELSE post["scheduled_at"])

OptionalScalars == {"status", "draft", "updated_at", "profile_group_id"}

\* C25: simplifyPost's output has the key status, draft, updated_at or
\* profile_group_id exactly when the source object has that field, with the
\* source's value unchanged; none of them is introduced with a null or default
\* value when the source lacks it.
C25_OptionalScalars ==
    fnPc = "once" =>
        \A k \in OptionalScalars :
            /\ k \in DOMAIN simplified <=> k \in DOMAIN post
            /\ (k \in DOMAIN simplified => simplified[k] = post[k])

\* C25 witness: a source with status null, draft true and neither updated_at nor
\* profile_group_id was simplified; the output has exactly the first two.
C25_Witness ==
    /\ fnPc = "once"
    /\ DOMAIN post \cap OptionalScalars = {"status", "draft"}
    /\ post["status"] = Null
    /\ DOMAIN simplified \cap OptionalScalars = {"status", "draft"}
    /\ simplified["status"] = Null
    /\ simplified["draft"] = "~true"

\* the object has a usable text under the key: neither missing, null nor empty
HasText(o, k) == k \in DOMAIN o /\ o[k] \notin {"", Null, Undef}

\* C26: simplifyPost's output content is the source's content when it has one,
\* else the nested post.body, else the top-level body, else the empty string;
\* the output content is always a defined value.
C26_ContentPreference ==
    fnPc = "once" =>
        /\ "content" \in DOMAIN simplified
        /\ simplified["content"] \notin {Undef, Null}
        /\ simplified["content"] =
              IF HasText(post, "content") THEN post["content"]
              ELSE IF "post" \in DOMAIN post /\ HasText(post["post"], "body")
                   THEN post["post"]["body"]
              ELSE IF HasText(post, "body") THEN post["body"]
              ELSE ""

\* C26 witness: a source without content but with both a nested and a top-level
\* body was simplified, and the nested body won.
C26_Witness ==
    /\ fnPc = "once"
    /\ "content" \notin DOMAIN post
    /\ "body" \in DOMAIN post
    /\ "post" \in DOMAIN post
    /\ "body" \in DOMAIN post["post"]
    /\ simplified["content"] = "nested body"

\* the keys a simplified platform entry may have besides platform and status
WhenPresent == {"attempted_at", "profile_id", "error", "published_url"}
WhenNonNull == {"params", "insights"}

NextPageRequested == pc = "await" /\ pc' = "await" /\ Len(requests') = Len(requests) + 1

\* C28: the return-all pagination loop of every getMany operation eventually
\* terminates, whatever the server answers while reporting a finite total, an
\* empty or short page before the total is reached included.  The loop decides
\* on allItems, total and the response alone, and the server may give the same
\* answer again: it terminates for every sequence of responses only if no turn
\* that requests a further page leaves allItems and total as they were.
C28_EveryTurnProgresses ==
    [][NextPageRequested => (Len(allItems') > Len(allItems) \/ total' # total)]_vars

\* the last page request settled with a response that reports a total
ReportedTotal ==
    /\ outcome.ok
    /\ outcome.response.kind = "object"
    /\ "total" \in DOMAIN outcome.response.payload

ReturnAllItem == Len(items) = 1 /\ items[1].operation = "getMany" /\ items[1].returnAll

\* C29: in return-all mode a response that carries no total (a bare array, an
\* envelope without the field) makes the loop stop right after it: a request is
\* pending after a settled one only if the settled response reported a total,
\* and when the first response reports none the run ends with exactly one
\* request, for page 0, and returns that response's items.
C29_NoTotalStops ==
    ReturnAllItem =>
        /\ (pc = "await" /\ Len(requests) >= 2 => ReportedTotal)
        /\ (pc = "returned" /\ outcome.ok /\ ~ReportedTotal =>
              /\ Len(output) = 1
              /\ (Len(requests) = 1 =>
                    /\ requests[1].page = 0
                    /\ output[1].json.payload["data"] = ResponseItems(outcome.response)))
        /\ (pc = "returned" /\ Len(requests) >= 2 /\ outcome.ok /\ ~ReportedTotal =>
              \E n \in 0..Len(output[1].json.payload["data"]) :
                  SubSeq(output[1].json.payload["data"], n + 1,
                         Len(output[1].json.payload["data"]))
                      = ResponseItems(outcome.response))

\* C29 witness: a server holding more than it sent answered page 0 with a bare
\* array of two entities; the run ended after that one request with those two.
C29_Witness ==
    /\ ReturnAllItem
    /\ pc = "returned"
    /\ server.total > 2
    /\ outcome.ok
    /\ outcome.response.kind = "array"
    /\ Len(requests) = 1
    /\ requests[1].page = 0
    /\ Len(output[1].json.payload["data"]) = 2

\* the update field is supplied and non-empty
Supplied(k) ==
    /\ k \in DOMAIN items[1].updateFields
    /\ items[1].updateFields[k] \notin {Undef, ""}

\* the key of body.post that carries the update field
PatchKey(k) == IF k = "content" THEN "body" ELSE k

UpdateWithId ==
    /\ Len(items) = 1
    /\ items[1].operation = "update"
    /\ extractResourceLocatorValue(items[1].postId) # ""

\* C30: update-post issues PATCH /posts/{id} whose body.post contains body iff
\* updateFields.content is supplied and non-empty and scheduled_at iff
\* updateFields.scheduled_at is supplied and non-empty, and nothing else; when
\* neither field is supplied it raises 'At least one field must be provided to
\* update' and sends no request.
C30_UpdateBody ==
    UpdateWithId =>
        LET wanted == {k \in {"content", "scheduled_at"} : Supplied(k)}
        IN  /\ Len(requests) <= 1
            /\ (requests # <<>> =>
                  /\ requests[1].method = "PATCH"
                  /\ requests[1].endpoint = "/posts/{id}"
                  /\ requests[1].id = extractResourceLocatorValue(items[1].postId)
                  /\ DOMAIN requests[1].body = {"post"}
                  /\ DOMAIN requests[1].body["post"] = {PatchKey(k) : k \in wanted}
                  /\ \A k \in wanted :
                        requests[1].body["post"][PatchKey(k)] = items[1].updateFields[k])
            /\ (wanted # {} /\ Attempted(0) => Len(requests) = 1)
            /\ (wanted = {} =>
                  /\ requests = <<>>
                  /\ (Attempted(0) =>
                        /\ Failed(0)
                        /\ Raised(0).text = "At least one field must be provided to update"))

\* C30 witness: an update with an empty content and a scheduled_at was sent as a
\* PATCH whose body.post has scheduled_at alone.
C30_Witness ==
    /\ UpdateWithId
    /\ "content" \in DOMAIN items[1].updateFields
    /\ items[1].updateFields["content"] = ""
    /\ Len(requests) = 1
    /\ requests[1].method = "PATCH"
    /\ requests[1].body = ("post" :> ("scheduled_at" :> "t1"))

====
